---------------------------- MODULE Spec2Model ----------------------------
(***************************************************************************)
(* Model of the orchestration core of galion-universal-downloader          *)
(* (v3-rebuild/app/core): the Redis-backed QueueManager and the asyncio    *)
(* WorkerPool that consumes it, DownloadEngine.download_file and the       *)
(* PlatformRegistry.                                                       *)
(*                                                                         *)
(* The Redis keyspace is the record `store`:                               *)
(*   pending   galion:queue:pending   sorted set, member -> score          *)
(*   active    galion:queue:active    set                                  *)
(*   completed galion:queue:completed list, newest first                   *)
(*   failed    galion:queue:failed    list, newest first                   *)
(*   jobs      galion:jobs:<id>       hash, field -> value                 *)
(*   urls      galion:urls:<hash>     string (a job id)                    *)
(*   stats     galion:stats           hash of counters                     *)
(*                                                                         *)
(* A Redis command is atomic on the store.  Seventeen specifications are   *)
(* given, all built from the same command operators:                       *)
(*   Spec      one caller at a time; every QueueManager method runs from   *)
(*             call to return as one action (the composition of its store  *)
(*             commands);                                                  *)
(*   SpecOrder Spec's enqueue and dequeue, with the order of the calls     *)
(*             recorded;                                                   *)
(*   SpecPool  worker tasks on one event loop; each action is one task     *)
(*             running from the completion of one `await` on a store       *)
(*             command to the next one;                                    *)
(*   SpecEnq   API request tasks calling enqueue concurrently, at the same *)
(*             granularity;                                                *)
(*   SpecStop  SpecPool from a constructed pool, with WorkerPool.start,    *)
(*             stop and scale;                                             *)
(*   SpecFault SpecPool where a store command inside fail may raise;       *)
(*   SpecCrash SpecPool where the process may exit and start again;        *)
(*   SpecPause Spec with pause, resume and update_progress;                *)
(*   SpecFetch one call of download_file against a server and a            *)
(*             destination drawn from small sets;                          *)
(*   SpecKinds Spec's enqueue, dequeue and fail, with the error strings    *)
(*             the handlers report;                                        *)
(*   SpecRoute PlatformRegistry.detect on the registry that                *)
(*             load_all_platforms builds, over URLs made of tokens;        *)
(*   SpecRegistry  PlatformRegistry.register called on an empty registry;  *)
(*   SpecLog   the fault-free pool on a store whose completed log is one id*)
(*             short of its cap;                                           *)
(*   SpecProgress  one worker with the progress snapshots of the handler   *)
(*             it runs;                                                    *)
(*   SpecEmit  SpecFetch with the percents download_file passes to its     *)
(*             progress callback;                                          *)
(*   SpecWs    the websocket ConnectionManager with one broadcast running; *)
(*   SpecLive  the fault-free pool with scale-down, under weak fairness of *)
(*             every worker's steps.                                       *)
(*                                                                         *)
(* Values Redis keeps as strings (numbers written by hset and read back    *)
(* with int(...)) are kept as integers: str and int are inverse on them.   *)
(* The ISO timestamps a record carries (created_at, started_at,            *)
(* completed_at, failed_at) are never read back by the program: the model  *)
(* keeps whether each is set (TRUE), not its value.  The clock reading     *)
(* that enters a score is kept.                                            *)
(* Key TTLs (JOB_TTL) are not modelled: no key expires in a behaviour.     *)
(***************************************************************************)
EXTENDS Integers, Sequences, FiniteSets, TLC

\* ------------------------------------------------------------------ bounds
MaxJobs == 2        \* job ids (uuid4 values) available to enqueue
MaxUrl == 2         \* distinct URLs submitted
MaxTime == 1        \* readings of the clock: 0..MaxTime
MaxCompletes == 2   \* complete() calls made for one job id
NumWorkers == 2     \* worker tasks of the pool
NumClients == 2     \* API request tasks calling enqueue concurrently
MaxFaults == 1      \* store commands that raise in one behaviour
MaxLen == 3         \* bytes of the remote content and of the destination file

\* --------------------------------------------------------- program constants
MAX_PRIORITY == 10          \* "(10 - priority)" in the score
DEFAULT_PRIORITY == 5       \* job_data.get("priority", 5)
DEFAULT_MAX_RETRIES == 3    \* job_data.get("max_retries", 3)
COMPLETED_CAP == 1000       \* ltrim(QUEUE_COMPLETED, 0, 999) keeps 1000 ids
\* The score's priority weight. The source uses 1e12, with timestamps near
\* 1.7e9 seconds: the weight exceeds every clock reading. The model keeps that
\* relation on a scale TLC's integers hold: clock readings are 0..MaxTime.
SCORE_WEIGHT == 1000

JobIds == 1..MaxJobs
NoJob == 0                  \* None where a job id is expected
Urls == 1..MaxUrl
\* Priorities given to enqueue: the lowest and the highest level.
Priorities == {0, MAX_PRIORITY}
HANDLER_ERROR == "transient"    \* result.get("error") of a failed download
EXCEPTION_ERROR == "exception"  \* str(e) of an exception caught by the worker
Errors == {HANDLER_ERROR}
Workers == 1..NumWorkers
Clients == 1..NumClients
Times == 0..MaxTime
NoRecord == << >>           \* hgetall of a missing key: {}

VARIABLES
    store,      \* the Redis keyspace
    paused,     \* QueueManager._paused
    now,        \* the clock read by datetime.utcnow()
    call,       \* the last QueueManager call of Spec: operation, arguments, return value
    enq_order,  \* history: <<id, priority, time>> of the jobs created, in enqueue order
    deq_first,  \* history: job ids in the order of their first dequeue
    deq_run,    \* history: the jobs popped since the last insertion into pending
    pc,         \* per worker: the await its _run task is suspended at
    local,      \* per worker: the locals of dequeue / complete / fail in progress
    current_job,\* per worker: Worker.current_job
    apc,        \* per API request task: the await its enqueue call is suspended at
    aloc,       \* per API request task: the arguments and locals of its enqueue call
    traj,       \* history: per job, the statuses written while its handler never succeeded
    terminal,   \* history: per job, complete() calls plus dead-lettering fail() calls
    handler_ok, \* history: per job, whether its handler ever returned success
    all_dedup,  \* history: whether every enqueue call so far passed deduplicate=true
    faults,     \* history: how many store commands have raised
    pool_running, \* WorkerPool.running
    workers,    \* WorkerPool.workers: the list of Worker objects
    num_workers,\* WorkerPool.num_workers
    running,    \* per Worker object: Worker.running
    worker_id,  \* per Worker object: Worker.id
    remote,     \* the server download_file talks to: content and behaviour
    dest,       \* the destination path of download_file: file system state
    request,    \* the GET request download_file sent
    returned,   \* what download_file returned, or that it raised
    registry,   \* PlatformRegistry: _handlers (the ids) and _detection_order
    given,      \* history: per registered id, the priority of its first register call
    detect_url, \* the URL of the last detect call
    detected,   \* what the last detect call returned
    prog,       \* the worker's _process_job in progress: handler, snapshots, outcome
    percents,   \* the percent values download_file passed to its progress_callback
    manager     \* ConnectionManager: connections, subscriptions, the broadcast in progress

\* WorkerPool and Worker fields
poolv == <<pool_running, workers, num_workers, running, worker_id>>

\* the world of DownloadEngine.download_file
fetchv == <<remote, dest, request, returned>>

\* the platform registry and its last detect call
routev == <<registry, given, detect_url, detected>>

\* progress delivery: the worker's callback, the engine's snapshots, the websockets
sidev == <<prog, percents, manager>>

others == <<poolv, fetchv, routev, sidev>>

vars == <<store, paused, now, call, enq_order, deq_first, deq_run,
          pc, local, current_job, apc, aloc, traj, terminal, handler_ok, all_dedup,
          faults, pool_running, workers, num_workers, running, worker_id,
          remote, dest, request, returned, registry, given, detect_url, detected,
          prog, percents, manager>>

\* ------------------------------------------------------------ dict helpers
\* dict.get(k, d)
Get(h, k, d) == IF k \in DOMAIN h THEN h[k] ELSE d

\* the hash after HSET key mapping
Merge(old, new) ==
    [k \in (DOMAIN old) \cup (DOMAIN new) |-> IF k \in DOMAIN new THEN new[k] ELSE old[k]]

PyMax(a, b) == IF a >= b THEN a ELSE b

\* ------------------------------------------------------------ store commands
\* _url_hash: sha256(url).hexdigest()[:16]. The digest is a function of the URL
\* alone; the URLs of the model have pairwise distinct digests (no collision of
\* the 64-bit prefix is modelled), so a digest is named by its URL.
url_hash(url) == url

\* redis.get(urls:<hash>): the job id stored, NoJob (nil) when the key is absent
get_url(s, h) == s.urls[h]

setex_url(s, h, job_id) == [s EXCEPT !.urls[h] = job_id]

hset(s, job_id, mapping) == [s EXCEPT !.jobs[job_id] = Merge(s.jobs[job_id], mapping)]

hgetall(s, job_id) == s.jobs[job_id]

zadd(s, job_id, sc) ==
    [s EXCEPT !.pending =
        [k \in (DOMAIN s.pending) \cup {job_id} |-> IF k = job_id THEN sc ELSE s.pending[k]]]

\* The member ZPOPMIN pops: lowest score, ties by member order.
zmin(z) ==
    CHOOSE m \in DOMAIN z :
        \A k \in DOMAIN z : z[m] < z[k] \/ (z[m] = z[k] /\ m <= k)

\* Mutant of zpopmin: the lowest member is read and left in the set (a ZRANGE
\* in place of the atomic pop).
zpopmin_peek(s) == s

\* The store after ZPOPMIN pending 1 (the set must be non-empty).
zpopmin(s) ==
    [s EXCEPT !.pending = [k \in (DOMAIN s.pending) \ {zmin(s.pending)} |-> s.pending[k]]]

sadd(s, job_id) == [s EXCEPT !.active = @ \cup {job_id}]

srem(s, job_id) == [s EXCEPT !.active = @ \ {job_id}]

lpush_completed(s, job_id) == [s EXCEPT !.completed = <<job_id>> \o @]

\* Mutant of ltrim_completed: the cut keeps the tail of the list, not its head.
ltrim_completed_keeps_tail(s) ==
    [s EXCEPT !.completed = IF Len(@) > COMPLETED_CAP
                            THEN SubSeq(@, Len(@) - COMPLETED_CAP + 1, Len(@))
                            ELSE @]

\* LTRIM completed 0 999
ltrim_completed(s) ==
    [s EXCEPT !.completed =
        IF Len(@) > COMPLETED_CAP THEN SubSeq(@, 1, COMPLETED_CAP) ELSE @]

lpush_failed(s, job_id) == [s EXCEPT !.failed = <<job_id>> \o @]

hincrby(s, field) == [s EXCEPT !.stats[field] = @ + 1]

\* Mutant of score: the priority term not inverted.
score_not_inverted(priority, ts) == priority * SCORE_WEIGHT + ts

\* score = (10 - priority) * 1e12 + now.timestamp()
score(priority, ts) == (MAX_PRIORITY - priority) * SCORE_WEIGHT + ts

\* ------------------------------------------------------ QueueManager methods
\* Each method is the composition of its store commands, in source order, and
\* yields [store |-> the store afterwards, ret |-> the return value].

\* The hash enqueue writes (platform_id and options are carried through by the
\* queue and never read by it: they are left out).
job_data(job_id, url, priority, ts) ==
    [id |-> job_id, url |-> url, url_hash |-> url_hash(url), status |-> "pending",
     priority |-> priority, created_at |-> TRUE, progress |-> 0, error |-> ""]

\* Mutant of is_duplicate: the fingerprint read is ignored.
is_duplicate_ignored(s, url, deduplicate) == FALSE

\* enqueue's deduplication check: `if deduplicate: existing = get(...); if existing`
is_duplicate(s, url, deduplicate) ==
    deduplicate /\ get_url(s, url_hash(url)) # NoJob

\* enqueue after the deduplication check: the record, the pending entry, the
\* fingerprint and the counter. job_id is the uuid4 drawn, ts is utcnow().
enqueue_create(s, url, priority, deduplicate, job_id, ts) ==
    LET s1 == hset(s, job_id, job_data(job_id, url, priority, ts))
        s2 == zadd(s1, job_id, score(priority, ts))
        s3 == IF deduplicate THEN setex_url(s2, url_hash(url), job_id) ELSE s2
    IN  hincrby(s3, "total_queued")

enqueue(s, url, priority, deduplicate, job_id, ts) ==
    IF is_duplicate(s, url, deduplicate)
    THEN [store |-> s, ret |-> NoJob]
    ELSE [store |-> enqueue_create(s, url, priority, deduplicate, job_id, ts),
          ret |-> job_id]

\* the fields dequeue / complete / fail write with hset
processing_fields == [status |-> "processing", started_at |-> TRUE]

completed_fields(result) ==
    [status |-> "completed", completed_at |-> TRUE, result |-> result]

retry_fields(retry_count, error, priority) ==
    [status |-> "pending", retry_count |-> retry_count, last_error |-> error,
     priority |-> priority]

failed_fields(error) == [status |-> "failed", failed_at |-> TRUE, error |-> error]

\* Mutant of dequeue_refused: the pause flag is not looked at.
dequeue_refused_never(is_paused) == FALSE

\* dequeue's first test: `if not self.is_connected or self._paused: return None`
\* (the manager is connected).
dequeue_refused(is_paused) == is_paused

\* update_progress(job_id, progress, speed, eta)
update_progress(s, job_id, progress, speed, eta) ==
    hset(s, job_id, [progress |-> progress, speed |-> speed, eta |-> eta])

\* dequeue: ret is the job view returned (NoRecord for None). The view is the
\* hash read by hgetall, before the status update is written.
dequeue(s, is_paused, ts) ==
    IF dequeue_refused(is_paused) \/ DOMAIN s.pending = {}
    THEN [store |-> s, ret |-> NoRecord, id |-> NoJob, score |-> 0]
    ELSE LET job_id == zmin(s.pending)
             sc == s.pending[job_id]
             s1 == sadd(zpopmin(s), job_id)
             view == hgetall(s1, job_id)
         IN  IF view = NoRecord
             THEN [store |-> srem(s1, job_id), ret |-> NoRecord, id |-> job_id, score |-> sc]
             ELSE [store |-> hset(s1, job_id, processing_fields),
                   ret |-> view, id |-> job_id, score |-> sc]

\* Mutant of complete: the fingerprint of the job's URL is deleted with the job.
complete_forgets_url(s, job_id, result) ==
    LET s1 == srem(s, job_id)
        s2 == hset(s1, job_id, completed_fields(result))
        s3 == ltrim_completed(lpush_completed(s2, job_id))
        s4 == IF s.jobs[job_id] = NoRecord THEN s3
              ELSE setex_url(s3, s.jobs[job_id].url_hash, NoJob)
    IN  hincrby(s4, "total_completed")

complete(s, job_id, result) ==
    LET s1 == srem(s, job_id)
        s2 == hset(s1, job_id, completed_fields(result))
        s3 == ltrim_completed(lpush_completed(s2, job_id))
    IN  hincrby(s3, "total_completed")

\* Mutants of retry_allowed: one retry fewer, and one retry more.
retry_allowed_one_fewer(retry, retry_count, max_retries) ==
    retry /\ retry_count + 1 < max_retries

retry_allowed_one_more(retry, retry_count, max_retries) ==
    retry /\ retry_count <= max_retries

\* fail's branch condition: `if retry and retry_count < max_retries`
retry_allowed(retry, retry_count, max_retries) ==
    retry /\ retry_count < max_retries

\* Mutant of retry_priority: no floor at 0.
retry_priority_unclamped(priority) == priority - 1

\* the priority a retried job is re-queued with: max(0, priority - 1)
retry_priority(priority) == PyMax(0, priority - 1)

fail(s, job_id, error, retry, ts) ==
    LET s1 == srem(s, job_id)
        data == hgetall(s1, job_id)
        retry_count == Get(data, "retry_count", 0)
        max_retries == Get(data, "max_retries", DEFAULT_MAX_RETRIES)
    IN  IF retry_allowed(retry, retry_count, max_retries)
        THEN LET priority == retry_priority(Get(data, "priority", DEFAULT_PRIORITY))
                 s2 == hset(s1, job_id, retry_fields(retry_count + 1, error, priority))
             IN  zadd(s2, job_id, score(priority, ts))
        ELSE LET s2 == hset(s1, job_id, failed_fields(error))
             IN  hincrby(lpush_failed(s2, job_id), "total_failed")

\* ------------------------------------------- PlatformRegistry and handlers
\* A URL is a sequence of tokens, each a piece of the string the regular
\* expressions and urlparse treat as a unit. The URLs considered are built
\* from a scheme (or none), an optional "www.", a host and a path; "HTTPS://"
\* is the scheme written in upper case, "abc" a word without digits, "123" and
\* "456" runs of digits.
SchemeTokens == {"https://", "http://", "HTTPS://", "ftp://"}

HostTokens == {"youtube.com", "civitai.com", "example.org", "bbc.com"}

PathTokens ==
    << << >>,
       <<"/watch?v=", "abc">>,
       <<"/playlist?list=", "abc">>,
       <<"/models/", "123">>,
       <<"/models/", "123", "?modelVersionId=", "456">>,
       <<"/models/", "123", "/slug", "?modelVersionId=", "456">>,
       <<"/models/", "abc">>,
       <<"/file">>,
       <<"/file", ".zip">>,
       <<"/file", ".zip", "?modelVersionId=", "456">>,
       <<"/?next=", "youtube.com", "/watch?v=", "abc">> >>

RouteUrls ==
    {scheme \o www \o <<host>> \o PathTokens[p] :
        scheme \in {<<t>> : t \in SchemeTokens} \cup {<< >>},
        www \in {<<"www.">>, << >>},
        host \in HostTokens,
        p \in DOMAIN PathTokens}

\* character classes, on tokens
Digits == {"123", "456"}        \* \d+

Word == Digits \cup {"abc"}     \* [\w-]+

\* tokens holding a "?": the path urlparse returns ends inside or before them
QueryTokens == {"/watch?v=", "/playlist?list=", "?modelVersionId=", "/?next="}

\* A pattern is a sequence of elements; an element is a sequence of parts, each
\* a set of tokens with the name of the group capturing it ("" for none), and
\* is optional or not. re.IGNORECASE: the scheme matches in either case.
Lit(tokens) == [parts |-> <<[tok |-> tokens, group |-> ""]>>, opt |-> FALSE]

Opt(tokens) == [parts |-> <<[tok |-> tokens, group |-> ""]>>, opt |-> TRUE]

Group(tokens, name) == [parts |-> <<[tok |-> tokens, group |-> name]>>, opt |-> FALSE]

SchemeOpt == Opt({"https://", "http://", "HTTPS://"})   \* (?:https?://)?

\* url_patterns of the handlers matched with re.search. A pattern whose
\* literal text is made of no token above (youtu.be, /shorts/, /articles/,
\* instagram.com, ...) matches none of RouteUrls and is left out.
url_patterns(id) ==
    CASE id = "youtube" ->
           << <<SchemeOpt, Opt({"www."}), Lit({"youtube.com"}), Lit({"/watch?v="}),
                Group(Word, "video_id")>>,
              <<SchemeOpt, Opt({"www."}), Lit({"youtube.com"}), Lit({"/playlist?list="}),
                Group(Word, "playlist_id")>> >>
      [] id = "civitai" ->
           << <<SchemeOpt, Lit({"civitai.com"}), Lit({"/models/"}), Group(Digits, "model_id"),
                Opt({"/slug"}),
                [parts |-> <<[tok |-> {"?modelVersionId="}, group |-> ""],
                             [tok |-> Digits, group |-> "version_id"]>>,
                 opt |-> TRUE]>> >>
      [] OTHER -> << >>

NoMatch == [ok |-> FALSE, groups |-> << >>]

\* the groups of element e, captured from s at position i, or None ("")
Captured(e, s, i, taken) ==
    LET named == {k \in 1..Len(e.parts) : e.parts[k].group # ""}
    IN  [g \in {e.parts[k].group : k \in named} |->
            IF taken
            THEN s[i - 1 + (CHOOSE k \in named : e.parts[k].group = g)]
            ELSE ""]

\* re.match of the pattern from element j on at position i of s: an optional
\* element is taken if the rest then matches (greedy), skipped otherwise
RECURSIVE match_at(_, _, _, _)
match_at(pattern, s, i, j) ==
    IF j > Len(pattern)
    THEN [ok |-> TRUE, groups |-> << >>]
    ELSE LET e == pattern[j]
             n == Len(e.parts)
             fits == /\ i + n - 1 <= Len(s)
                     /\ \A k \in 1..n : s[i + k - 1] \in e.parts[k].tok
             taken == IF fits THEN match_at(pattern, s, i + n, j + 1) ELSE NoMatch
             skipped == IF e.opt THEN match_at(pattern, s, i, j + 1) ELSE NoMatch
         IN  IF taken.ok
             THEN [ok |-> TRUE, groups |-> Captured(e, s, i, TRUE) @@ taken.groups]
             ELSE IF skipped.ok
             THEN [ok |-> TRUE, groups |-> Captured(e, s, i, FALSE) @@ skipped.groups]
             ELSE NoMatch

\* re.search(pattern, url, re.IGNORECASE): the match at the leftmost position
re_search(pattern, s) ==
    LET starts == {i \in 1..Len(s) : match_at(pattern, s, i, 1).ok}
    IN  IF starts = {} THEN NoMatch
        ELSE match_at(pattern, s, CHOOSE i \in starts : \A k \in starts : i <= k, 1)

\* PlatformInfo(id, url_type, metadata); None is NoInfo
PlatformInfo(id, type, metadata) == [id |-> id, url_type |-> type, metadata |-> metadata]

NoInfo == PlatformInfo("", "", << >>)

\* Mutant of url_type: the PlatformInfo default.
url_type_unknown(id, groups) == "unknown"

\* the url_type a handler derives from the groups of the pattern that matched
url_type(id, groups) ==
    LET has(g) == g \in DOMAIN groups
    IN  CASE id = "youtube" ->
               IF has("playlist_id") THEN "playlist"
               ELSE IF has("channel_handle") \/ has("channel_id") THEN "channel"
               ELSE "video"
          [] id = "civitai" ->
               IF has("article_id") THEN "article"
               ELSE IF has("image_id") THEN "image"
               ELSE IF has("username") THEN "user"
               ELSE IF has("version_id") /\ ~has("model_id") THEN "download"
               ELSE "model"
          [] OTHER -> "unknown"

\* {k: v for k, v in groups.items() if v} (civitai); youtube passes groups on
metadata_of(id, groups) ==
    IF id = "youtube" THEN groups
    ELSE [g \in {k \in DOMAIN groups : groups[k] # ""} |-> groups[g]]

\* can_handle of the handlers that loop over url_patterns
RECURSIVE first_match(_, _, _)
first_match(id, s, k) ==
    IF k > Len(url_patterns(id)) THEN NoInfo
    ELSE LET m == re_search(url_patterns(id)[k], s)
         IN  IF m.ok
             THEN PlatformInfo(id, url_type(id, m.groups), metadata_of(id, m.groups))
             ELSE first_match(id, s, k + 1)

\* urlparse(url).netloc: the text between "//" and the path, "" without "//"
netloc(s) ==
    IF s = << >> \/ s[1] \notin SchemeTokens THEN << >>
    ELSE LET rest == Tail(s)
             ends == {i \in 1..Len(rest) : rest[i] \notin HostTokens \cup {"www."}}
             n == IF ends = {} THEN Len(rest)
                  ELSE (CHOOSE i \in ends : \A k \in ends : i <= k) - 1
         IN  SubSeq(rest, 1, n)

\* NEWS_DOMAINS, cut down to the domain among HostTokens
NEWS_DOMAINS == {"bbc.com"}

\* NewsHandler.can_handle: the domain without "www." is a news domain
news_can_handle(s) ==
    LET domain == IF netloc(s) # << >> /\ Head(netloc(s)) = "www."
                  THEN Tail(netloc(s)) ELSE netloc(s)
    IN  IF Len(domain) = 1 /\ domain[1] \in NEWS_DOMAINS
        THEN PlatformInfo("news", "article", [domain |-> domain[1]])
        ELSE NoInfo

\* DIRECT_EXTENSIONS, cut down to the extension among the tokens
DIRECT_EXTENSIONS == {".zip"}

\* GenericHandler.can_handle: url.startswith(("http://", "https://")), then
\* the extension the path ends with
generic_can_handle(s) ==
    IF s = << >> \/ s[1] \notin {"http://", "https://"} THEN NoInfo
    ELSE LET qs == {i \in 1..Len(s) : s[i] \in QueryTokens}
             q == IF qs = {} THEN Len(s) + 1 ELSE CHOOSE i \in qs : \A k \in qs : i <= k
             ends_with_ext == /\ q > 1
                              /\ s[q - 1] \in DIRECT_EXTENSIONS
                              /\ (q > Len(s) \/ s[q] = "?modelVersionId=")
         IN  IF ends_with_ext
             THEN PlatformInfo("generic", "direct", [extension |-> s[q - 1]])
             ELSE PlatformInfo("generic", "unknown", << >>)

can_handle(id, s) ==
    CASE id = "generic" -> generic_can_handle(s)
      [] id = "news" -> news_can_handle(s)
      [] OTHER -> first_match(id, s, 1)

\* load_all_platforms: the handlers in the order they are registered
LoadOrder ==
    <<"youtube", "instagram", "tiktok", "twitter", "reddit", "github", "civitai",
      "huggingface", "telegram", "news", "archive", "generic">>

DEFAULT_REGISTER_PRIORITY == 50

\* _get_priority(platform_id, default)
get_priority(platform_id, default) ==
    CASE platform_id = "onion" -> 10
      [] platform_id = "archive" -> 15
      [] platform_id = "news" -> 20
      [] platform_id = "youtube" -> 30
      [] platform_id \in {"instagram", "tiktok", "twitter"} -> 35
      [] platform_id = "generic" -> 100
      [] OTHER -> default

\* list.sort(key=...): ascending by key, equal keys keep their order
RECURSIVE sort_by_priority(_, _, _)
sort_by_priority(order, default, keys) ==
    IF keys = {} THEN << >>
    ELSE LET least == CHOOSE k \in keys : \A x \in keys : k <= x
             is_least(id) == get_priority(id, default) = least
         IN  SelectSeq(order, is_least) \o sort_by_priority(order, default, keys \ {least})

EmptyRegistry == [handlers |-> {}, detection_order |-> << >>]

\* PlatformRegistry.register(handler_class, priority)
register(reg, id, priority) ==
    LET appended == Append(reg.detection_order, id)
        keys == {get_priority(appended[i], priority) : i \in 1..Len(appended)}
    IN  [handlers |-> reg.handlers \cup {id},
         detection_order |->
            IF \E i \in 1..Len(reg.detection_order) : reg.detection_order[i] = id
            THEN reg.detection_order
            ELSE sort_by_priority(appended, priority, keys)]

\* load_all_platforms(): register(handler) for each handler of the list
RECURSIVE register_all(_, _)
register_all(reg, ids) ==
    IF ids = << >> THEN reg
    ELSE register_all(register(reg, Head(ids), DEFAULT_REGISTER_PRIORITY), Tail(ids))

\* Mutant of detect: the last handler of the order that accepts wins.
detect_last(reg, s) ==
    LET order == reg.detection_order
        hits == {i \in 1..Len(order) :
                    order[i] \in reg.handlers /\ can_handle(order[i], s) # NoInfo}
    IN  IF hits = {} THEN NoInfo
        ELSE can_handle(order[CHOOSE i \in hits : \A k \in hits : i >= k], s)

\* PlatformRegistry.detect(url)
detect(reg, s) ==
    LET order == reg.detection_order
        hits == {i \in 1..Len(order) :
                    order[i] \in reg.handlers /\ can_handle(order[i], s) # NoInfo}
    IN  IF hits = {} THEN NoInfo
        ELSE can_handle(order[CHOOSE i \in hits : \A k \in hits : i <= k], s)

NoGiven == [id \in {} |-> 0]

\* The registry after load_all_platforms(), as main.py leaves it at start-up;
\* no detect call made.
InitLoaded ==
    /\ registry = register_all(EmptyRegistry, LoadOrder)
    /\ given = [i \in {LoadOrder[k] : k \in DOMAIN LoadOrder} |-> DEFAULT_REGISTER_PRIORITY]
    /\ detect_url = << >>
    /\ detected = NoInfo

\* ------------------------------------------------------------ initial state
\* An empty keyspace, as after connect() to a fresh Redis.
EmptyStore ==
    [pending |-> << >>, active |-> {}, completed |-> << >>, failed |-> << >>,
     jobs |-> [j \in JobIds |-> NoRecord],
     urls |-> [h \in {url_hash(u) : u \in Urls} |-> NoJob],
     stats |-> [total_queued |-> 0, total_completed |-> 0, total_failed |-> 0]]

\* No job is being processed by _process_job.
NoProg ==
    [kind |-> "none", job |-> NoJob, phase |-> "idle", callback_set |-> FALSE,
     emitted |-> << >>, delivered |-> << >>, notified |-> << >>, last_progress |-> 0,
     fate |-> "none", result |-> "none", raised |-> FALSE, outcome |-> "none"]

\* No broadcast_to_job call is in progress.
NoBroadcast ==
    [pc |-> "idle", job |-> NoJob, obj |-> {}, attached |-> FALSE, si_used |-> 0,
     visited |-> {}, sending |-> 0, dead |-> {}, received |-> {}, stayed |-> {}]

\* ConnectionManager.__init__
EmptyManager ==
    [active |-> {}, closed |-> {}, subscriptions |-> << >>, bc |-> NoBroadcast]

\* No job in _process_job, no download_file call made, no websocket connected.
InitQuiet ==
    /\ prog = NoProg
    /\ percents = << >>
    /\ manager = EmptyManager

NoCall ==
    [op |-> "none", id |-> NoJob, url |-> 0, priority |-> 0, deduplicate |-> FALSE,
     retry |-> FALSE, ret |-> NoJob]

\* A worker's locals outside any queue call.
NoLocal ==
    [job |-> NoJob, error |-> "", retry_count |-> 0, priority |-> 0, score |-> 0]

\* An API task's locals outside any enqueue call.
NoArgs ==
    [url |-> 0, priority |-> 0, deduplicate |-> FALSE, job_id |-> NoJob, ts |-> 0]

InitQueue ==
    /\ store = EmptyStore
    /\ paused = FALSE
    /\ now = 0
    /\ call = NoCall
    /\ enq_order = << >>
    /\ deq_first = << >>
    /\ deq_run = << >>

\* The pool started (WorkerPool.start): every worker at the top of its loop.
InitPool ==
    /\ pc = [w \in Workers |-> "idle"]
    /\ local = [w \in Workers |-> NoLocal]
    /\ current_job = [w \in Workers |-> NoJob]
    /\ apc = [c \in Clients |-> "idle"]
    /\ aloc = [c \in Clients |-> NoArgs]
    /\ traj = [j \in JobIds |-> << >>]
    /\ terminal = [j \in JobIds |-> 0]
    /\ handler_ok = [j \in JobIds |-> FALSE]
    /\ all_dedup = TRUE
    /\ faults = 0

\* WorkerPool.start has run: num_workers Worker objects, all running.
InitStarted ==
    /\ pool_running = TRUE
    /\ workers = [i \in 1..NumWorkers |-> i]
    /\ num_workers = NumWorkers
    /\ running = [w \in Workers |-> TRUE]
    /\ worker_id = [w \in Workers |-> w - 1]

\* No download_file call made.
NoRemote == [content |-> << >>, head |-> "none", accept_ranges |-> FALSE]

NoDest == [exists |-> FALSE, data |-> << >>, fault |-> "none"]

\* no Range header
NoRange == -1

NoRequest == [sent |-> FALSE, range |-> NoRange]

NoResult ==
    [outcome |-> "none", success |-> FALSE, error |-> "", resumed |-> FALSE,
     file_size |-> 0, checksum |-> << >>]

InitEngine ==
    /\ remote = NoRemote
    /\ dest = NoDest
    /\ request = NoRequest
    /\ returned = NoResult

\* job ids no record was written for: what uuid4() may still return
FreeIds == {j \in JobIds : store.jobs[j] = NoRecord}

Status(s, j) == Get(s.jobs[j], "status", "none")

InSeq(x, q) == \E i \in 1..Len(q) : q[i] = x

Count(x, q) == Cardinality({i \in 1..Len(q) : q[i] = x})

\* ------------------------------------------------- Spec: one caller at a time
hist == <<enq_order, deq_first, deq_run>>

tasks == <<pc, local, current_job, apc, aloc, traj, terminal, handler_ok, all_dedup,
           faults>>

\* The clock advances. Two calls with no Tick between them read the same time:
\* the score is a double near 1e12..1e13, where adjacent values are 2^-12 to
\* 2^-9 seconds apart, so timestamps closer than that give equal scores.
Tick ==
    /\ now < MaxTime
    /\ now' = now + 1
    /\ UNCHANGED <<store, paused, call, hist, others, tasks>>

\* enqueue(url, priority=priority, deduplicate=deduplicate), with job_id the
\* value uuid4() returns when a job is created.
EnqueueStep(url, priority, deduplicate, job_id) ==
    LET r == enqueue(store, url, priority, deduplicate, job_id, now)
    IN  /\ is_duplicate(store, url, deduplicate) \/ job_id # NoJob
        /\ store' = r.store
        /\ call' = [NoCall EXCEPT !.op = "enqueue", !.url = url, !.priority = priority,
                                   !.deduplicate = deduplicate, !.ret = r.ret]
        /\ UNCHANGED <<paused, now>>

NewIds == IF FreeIds = {} THEN {NoJob} ELSE FreeIds

EnqueueCall ==
    \E url \in Urls, priority \in Priorities, deduplicate \in BOOLEAN, job_id \in NewIds :
        /\ EnqueueStep(url, priority, deduplicate, job_id)
        /\ UNCHANGED <<hist, others, tasks>>

DequeueStep ==
    LET r == dequeue(store, paused, now)
    IN  /\ store' = r.store
        /\ call' = [NoCall EXCEPT !.op = "dequeue", !.id = r.id,
                                   !.ret = IF r.ret = NoRecord THEN NoJob ELSE r.id]
        /\ UNCHANGED <<paused, now>>

DequeueCall ==
    /\ DequeueStep
    /\ UNCHANGED <<hist, others, tasks>>

\* complete(job_id, result) for a job being processed, or once more for a job
\* already completed.
CompleteStep(job_id) ==
    /\ job_id \in store.active \/ Status(store, job_id) = "completed"
    /\ Count(job_id, store.completed) < MaxCompletes
    /\ store' = complete(store, job_id, "ok")
    /\ call' = [NoCall EXCEPT !.op = "complete", !.id = job_id]
    /\ UNCHANGED <<paused, now>>

CompleteCall ==
    \E job_id \in JobIds :
        /\ CompleteStep(job_id)
        /\ UNCHANGED <<hist, others, tasks>>

\* fail(job_id, error, retry) for a job being processed.
FailStep(job_id, error, retry) ==
    /\ job_id \in store.active
    /\ store' = fail(store, job_id, error, retry, now)
    /\ call' = [NoCall EXCEPT !.op = "fail", !.id = job_id, !.retry = retry]
    /\ UNCHANGED <<paused, now>>

FailCall ==
    \E job_id \in JobIds, error \in Errors, retry \in BOOLEAN :
        /\ FailStep(job_id, error, retry)
        /\ UNCHANGED <<hist, others, tasks>>

Init == InitQueue /\ InitPool /\ InitStarted /\ InitEngine /\ InitLoaded /\ InitQuiet

Next ==
    \/ Tick
    \/ EnqueueCall
    \/ DequeueCall
    \/ CompleteCall
    \/ FailCall

Spec == Init /\ [][Next]_vars

\* --------------------------------- SpecOrder: enqueue and dequeue calls only
\* Any sequence of enqueue and dequeue calls by one caller, with the order of
\* creation and of removal recorded in the history variables.
\* Priorities with two adjacent values, so that one priority step is weighed
\* against the whole range of the clock.
OrderPriorities == {0, DEFAULT_PRIORITY - 1, DEFAULT_PRIORITY, MAX_PRIORITY}

OrderEnqueue ==
    \E url \in Urls, priority \in OrderPriorities, deduplicate \in BOOLEAN, job_id \in NewIds :
        /\ EnqueueStep(url, priority, deduplicate, job_id)
        /\ enq_order' = IF call'.ret # NoJob
                         THEN Append(enq_order, <<call'.ret, priority, now>>)
                         ELSE enq_order
        /\ deq_run' = IF call'.ret # NoJob THEN << >> ELSE deq_run
        /\ UNCHANGED <<deq_first, tasks, others>>

OrderDequeue ==
    /\ DequeueStep
    /\ deq_first' = IF call'.ret # NoJob /\ ~InSeq(call'.ret, deq_first)
                     THEN Append(deq_first, call'.ret)
                     ELSE deq_first
    /\ deq_run' = IF call'.ret # NoJob
                   THEN Append(deq_run, [id |-> call'.ret,
                                         score |-> store.pending[call'.ret],
                                         priority |-> store.jobs[call'.ret].priority])
                   ELSE deq_run
    /\ UNCHANGED <<enq_order, tasks, others>>

OrderTick == Tick

NextOrder ==
    \/ OrderTick
    \/ OrderEnqueue
    \/ OrderDequeue

SpecOrder == Init /\ [][NextOrder]_vars

\* ------------------------------------------------ SpecPool: the worker pool
\* Worker tasks run Worker._run against the queue while requests enqueue jobs.
\* A worker step is one `await` completing: the store command takes effect and
\* the task runs on to its next await. handler.download returns success or
\* failure (_process_job turns a raised exception into a failure). A store
\* command or json.dumps inside complete() may raise instead of taking effect.

\* Requests of the pool are those of POST /downloads with the default
\* priority: enqueue(url, priority=5) with deduplicate left at its default.
PoolPriorities == {DEFAULT_PRIORITY}

PoolDeduplicate == {TRUE}

\* Appends a status to the trajectory of a job whose handler never succeeded.
Record(tr, ok, j, status) ==
    IF ok[j] THEN tr ELSE [tr EXCEPT ![j] = Append(@, status)]

\* A request's enqueue call, from call to return.
PoolEnqueue ==
    \E url \in Urls, priority \in PoolPriorities, deduplicate \in PoolDeduplicate,
       job_id \in NewIds :
        LET r == enqueue(store, url, priority, deduplicate, job_id, now)
        IN  /\ is_duplicate(store, url, deduplicate) \/ job_id # NoJob
            /\ store' = r.store
            /\ traj' = IF r.ret # NoJob THEN Record(traj, handler_ok, r.ret, "pending") ELSE traj
            /\ UNCHANGED <<paused, now, call, hist, others, pc, local, current_job, apc, aloc,
                           terminal, handler_ok, all_dedup, faults>>

PoolTick == Tick

\* _run: `job = await queue_manager.dequeue()` up to the ZPOPMIN reply. When
\* dequeue returns None the worker sleeps one second and is back here: the
\* sleep changes nothing, and the worker stays "idle".
WDequeue(w) ==
    /\ pc[w] = "idle"
    /\ IF paused \/ DOMAIN store.pending = {}
       THEN /\ pc' = [pc EXCEPT ![w] = "idle"]
            /\ UNCHANGED <<store, local>>
       ELSE /\ store' = zpopmin(store)
            /\ local' = [local EXCEPT ![w].job = zmin(store.pending)]
            /\ pc' = [pc EXCEPT ![w] = "deq_sadd"]
    /\ UNCHANGED <<paused, now, call, hist, others, current_job, apc, aloc, traj, terminal,
                   handler_ok, all_dedup, faults>>

\* dequeue after the pop: sadd, hgetall, then srem (record missing) or hset;
\* on return the worker sets current_job and awaits the handler.
WDequeueRest(w) ==
    LET j == local[w].job
    IN  /\ pc[w] \in {"deq_sadd", "deq_hgetall", "deq_srem", "deq_hset"}
        /\ CASE pc[w] = "deq_sadd" ->
                  /\ store' = sadd(store, j)
                  /\ pc' = [pc EXCEPT ![w] = "deq_hgetall"]
                  /\ UNCHANGED <<local, current_job, traj>>
             [] pc[w] = "deq_hgetall" ->
                  /\ pc' = [pc EXCEPT ![w] =
                               IF hgetall(store, j) = NoRecord THEN "deq_srem" ELSE "deq_hset"]
                  /\ UNCHANGED <<store, local, current_job, traj>>
             [] pc[w] = "deq_srem" ->
                  /\ store' = srem(store, j)
                  /\ pc' = [pc EXCEPT ![w] = "idle"]
                  /\ local' = [local EXCEPT ![w] = NoLocal]
                  /\ UNCHANGED <<current_job, traj>>
             [] pc[w] = "deq_hset" ->
                  /\ store' = hset(store, j, processing_fields)
                  /\ current_job' = [current_job EXCEPT ![w] = j]
                  /\ traj' = Record(traj, handler_ok, j, "processing")
                  /\ pc' = [pc EXCEPT ![w] = "handler"]
                  /\ UNCHANGED local
        /\ UNCHANGED <<paused, now, call, hist, others, apc, aloc, terminal, handler_ok, all_dedup, faults>>

\* _process_job returns: success leads into complete(), failure into fail().
WHandler(w) ==
    LET j == local[w].job
    IN  /\ pc[w] = "handler"
        /\ \E success \in BOOLEAN :
              IF success
              THEN /\ pc' = [pc EXCEPT ![w] = "c_srem"]
                   /\ terminal' = [terminal EXCEPT ![j] = @ + 1]
                   /\ handler_ok' = [handler_ok EXCEPT ![j] = TRUE]
                   /\ traj' = [traj EXCEPT ![j] = << >>]
                   /\ UNCHANGED local
              ELSE /\ pc' = [pc EXCEPT ![w] = "f_srem"]
                   /\ local' = [local EXCEPT ![w].error = HANDLER_ERROR]
                   /\ UNCHANGED <<terminal, handler_ok, traj>>
        /\ UNCHANGED <<store, paused, now, call, hist, others, current_job, apc, aloc, all_dedup, faults>>

CompletePcs == {"c_srem", "c_hset", "c_lpush", "c_ltrim", "c_hincrby"}

\* complete(job["id"], result), one store command per step; after the last one
\* the worker clears current_job and loops.
WComplete(w) ==
    LET j == local[w].job
    IN  /\ pc[w] \in CompletePcs
        /\ CASE pc[w] = "c_srem" ->
                  /\ store' = srem(store, j)
                  /\ pc' = [pc EXCEPT ![w] = "c_hset"]
                  /\ UNCHANGED <<local, current_job>>
             [] pc[w] = "c_hset" ->
                  /\ store' = hset(store, j, completed_fields("ok"))
                  /\ pc' = [pc EXCEPT ![w] = "c_lpush"]
                  /\ UNCHANGED <<local, current_job>>
             [] pc[w] = "c_lpush" ->
                  /\ store' = lpush_completed(store, j)
                  /\ pc' = [pc EXCEPT ![w] = "c_ltrim"]
                  /\ UNCHANGED <<local, current_job>>
             [] pc[w] = "c_ltrim" ->
                  /\ store' = ltrim_completed(store)
                  /\ pc' = [pc EXCEPT ![w] = "c_hincrby"]
                  /\ UNCHANGED <<local, current_job>>
             [] pc[w] = "c_hincrby" ->
                  /\ store' = hincrby(store, "total_completed")
                  /\ pc' = [pc EXCEPT ![w] = "idle"]
                  /\ local' = [local EXCEPT ![w] = NoLocal]
                  /\ current_job' = [current_job EXCEPT ![w] = NoJob]
        /\ UNCHANGED <<paused, now, call, hist, others, apc, aloc, traj, terminal, handler_ok,
                       all_dedup, faults>>

\* The awaited command of complete() (or json.dumps before the hset) raises:
\* `except Exception as e` calls fail(job["id"], str(e)).
WCompleteRaise(w) ==
    /\ pc[w] \in CompletePcs
    /\ faults < MaxFaults
    /\ faults' = faults + 1
    /\ pc' = [pc EXCEPT ![w] = "f_srem"]
    /\ local' = [local EXCEPT ![w].error = EXCEPTION_ERROR]
    /\ UNCHANGED <<store, paused, now, call, hist, others, current_job, apc, aloc, traj,
                   terminal, handler_ok, all_dedup>>

FailPcs == {"f_srem", "f_hgetall", "f_hset_retry", "f_zadd", "f_hset_failed", "f_lpush",
            "f_hincrby"}

\* fail(job["id"], error) with the default retry=True, one store command per
\* step; after the last one the worker clears current_job and loops.
WFail(w) ==
    LET j == local[w].job
        data == hgetall(store, j)
        retry_count == Get(data, "retry_count", 0)
        max_retries == Get(data, "max_retries", DEFAULT_MAX_RETRIES)
    IN  /\ pc[w] \in FailPcs
        /\ CASE pc[w] = "f_srem" ->
                  /\ store' = srem(store, j)
                  /\ pc' = [pc EXCEPT ![w] = "f_hgetall"]
                  /\ UNCHANGED <<local, current_job, traj, terminal>>
             [] pc[w] = "f_hgetall" ->
                  /\ IF retry_allowed(TRUE, retry_count, max_retries)
                     THEN /\ local' = [local EXCEPT
                                ![w].retry_count = retry_count + 1,
                                ![w].priority =
                                    retry_priority(Get(data, "priority", DEFAULT_PRIORITY))]
                          /\ pc' = [pc EXCEPT ![w] = "f_hset_retry"]
                          /\ UNCHANGED terminal
                     ELSE /\ pc' = [pc EXCEPT ![w] = "f_hset_failed"]
                          /\ terminal' = [terminal EXCEPT ![j] = @ + 1]
                          /\ UNCHANGED local
                  /\ UNCHANGED <<store, current_job, traj>>
             [] pc[w] = "f_hset_retry" ->
                  /\ store' = hset(store, j, retry_fields(local[w].retry_count,
                                                          local[w].error, local[w].priority))
                  /\ local' = [local EXCEPT ![w].score = score(local[w].priority, now)]
                  /\ traj' = Record(traj, handler_ok, j, "pending")
                  /\ pc' = [pc EXCEPT ![w] = "f_zadd"]
                  /\ UNCHANGED <<current_job, terminal>>
             [] pc[w] = "f_zadd" ->
                  /\ store' = zadd(store, j, local[w].score)
                  /\ pc' = [pc EXCEPT ![w] = "idle"]
                  /\ local' = [local EXCEPT ![w] = NoLocal]
                  /\ current_job' = [current_job EXCEPT ![w] = NoJob]
                  /\ UNCHANGED <<traj, terminal>>
             [] pc[w] = "f_hset_failed" ->
                  /\ store' = hset(store, j, failed_fields(local[w].error))
                  /\ traj' = Record(traj, handler_ok, j, "failed")
                  /\ pc' = [pc EXCEPT ![w] = "f_lpush"]
                  /\ UNCHANGED <<local, current_job, terminal>>
             [] pc[w] = "f_lpush" ->
                  /\ store' = lpush_failed(store, j)
                  /\ pc' = [pc EXCEPT ![w] = "f_hincrby"]
                  /\ UNCHANGED <<local, current_job, traj, terminal>>
             [] pc[w] = "f_hincrby" ->
                  /\ store' = hincrby(store, "total_failed")
                  /\ pc' = [pc EXCEPT ![w] = "idle"]
                  /\ local' = [local EXCEPT ![w] = NoLocal]
                  /\ current_job' = [current_job EXCEPT ![w] = NoJob]
                  /\ UNCHANGED <<traj, terminal>>
        /\ UNCHANGED <<paused, now, call, hist, others, apc, aloc, handler_ok, all_dedup, faults>>

NextPool ==
    \/ PoolTick
    \/ PoolEnqueue
    \/ \E w \in Workers : WDequeue(w)
    \/ \E w \in Workers : WDequeueRest(w)
    \/ \E w \in Workers : WHandler(w)
    \/ \E w \in Workers : WComplete(w)
    \/ \E w \in Workers : WCompleteRaise(w)
    \/ \E w \in Workers : WFail(w)

SpecPool == Init /\ [][NextPool]_vars

\* ------------------------------------- SpecLog: the completed log at its cap
\* The pool of SpecPool on a store that has already completed COMPLETED_CAP - 1
\* jobs: their ids (above MaxJobs, OldId(1) the newest) fill queue:completed and
\* their records have expired, so the next completions make ltrim cut the log.
OldId(i) == MaxJobs + i

OldLog == [i \in 1..(COMPLETED_CAP - 1) |-> OldId(i)]

InitLog ==
    /\ store = [EmptyStore EXCEPT !.completed = OldLog,
                                  !.stats.total_queued = COMPLETED_CAP - 1,
                                  !.stats.total_completed = COMPLETED_CAP - 1]
    /\ paused = FALSE
    /\ now = 0
    /\ call = NoCall
    /\ enq_order = << >>
    /\ deq_first = << >>
    /\ deq_run = << >>
    /\ InitPool /\ InitStarted /\ InitEngine /\ InitLoaded /\ InitQuiet

\* The store does not fail here: no store command raises.
NextLog ==
    \/ PoolEnqueue
    \/ \E w \in Workers : WDequeue(w)
    \/ \E w \in Workers : WDequeueRest(w)
    \/ \E w \in Workers : WHandler(w)
    \/ \E w \in Workers : WComplete(w)
    \/ \E w \in Workers : WFail(w)

SpecLog == InitLog /\ [][NextLog]_vars

\* C31: the completed log is bounded and newest-first. Whenever no worker is
\* between the lpush and the ltrim of a complete() call the log holds at most
\* COMPLETED_CAP ids (each worker in between adds at most one); an lpush puts
\* the completed id at the head of the log and keeps the rest in order; an ltrim
\* keeps the first COMPLETED_CAP ids, so the ids it drops are the oldest ones,
\* and what is left of the old log is always its newest part, behind every id
\* completed since.
Trimming == {w \in Workers : pc[w] = "c_ltrim"}

OldPart(log) == SelectSeq(log, LAMBDA x : x \notin JobIds)

NewestFirst(log) ==
    /\ Len(log) <= COMPLETED_CAP + Cardinality(Trimming)
    /\ OldPart(log) = SubSeq(OldLog, 1, Len(OldPart(log)))
    /\ \A i \in 1..(Len(log) - 1) : log[i] \notin JobIds => log[i + 1] \notin JobIds

C31_LogStep ==
    \A w \in Workers :
        /\ (pc[w] = "c_lpush" /\ pc'[w] = "c_ltrim") =>
               /\ Head(store'.completed) = local[w].job
               /\ Tail(store'.completed) = store.completed
        /\ (pc[w] = "c_ltrim" /\ pc'[w] = "c_hincrby") =>
               /\ Len(store'.completed) <= COMPLETED_CAP
               /\ store'.completed =
                      SubSeq(store.completed, 1, Len(store'.completed))
               /\ Len(store.completed) >= COMPLETED_CAP =>
                      Len(store'.completed) = COMPLETED_CAP

UndrawnIds == FreeIds \ {aloc[c].job_id : c \in Clients}

\* The call: arguments bound; with deduplicate the GET is awaited, otherwise
\* uuid4() and utcnow() are taken and the hset is awaited.
ApiCall(c) ==
    /\ apc[c] = "idle"
    /\ \E url \in Urls, priority \in PoolPriorities, deduplicate \in BOOLEAN :
          IF deduplicate
          THEN /\ aloc' = [aloc EXCEPT ![c] = [NoArgs EXCEPT !.url = url,
                               !.priority = priority, !.deduplicate = TRUE]]
               /\ apc' = [apc EXCEPT ![c] = "e_get"]
               /\ UNCHANGED all_dedup
          ELSE \E job_id \in UndrawnIds :
               /\ aloc' = [aloc EXCEPT ![c] = [url |-> url, priority |-> priority,
                               deduplicate |-> FALSE, job_id |-> job_id, ts |-> now]]
               /\ apc' = [apc EXCEPT ![c] = "e_hset"]
               /\ all_dedup' = FALSE
    /\ UNCHANGED <<store, paused, now, call, hist, others, pc, local, current_job, traj, terminal,
                   handler_ok, faults>>

\* The remaining awaits of enqueue, in source order.
ApiEnqueue(c) ==
    LET a == aloc[c]
    IN  /\ apc[c] \in {"e_get", "e_hset", "e_zadd", "e_setex", "e_hincrby"}
        /\ CASE apc[c] = "e_get" ->
                  IF get_url(store, url_hash(a.url)) # NoJob
                  THEN /\ apc' = [apc EXCEPT ![c] = "idle"]
                       /\ aloc' = [aloc EXCEPT ![c] = NoArgs]
                       /\ UNCHANGED store
                  ELSE \E job_id \in UndrawnIds :
                       /\ aloc' = [aloc EXCEPT ![c].job_id = job_id, ![c].ts = now]
                       /\ apc' = [apc EXCEPT ![c] = "e_hset"]
                       /\ UNCHANGED store
             [] apc[c] = "e_hset" ->
                  /\ store' = hset(store, a.job_id,
                                   job_data(a.job_id, a.url, a.priority, a.ts))
                  /\ apc' = [apc EXCEPT ![c] = "e_zadd"]
                  /\ UNCHANGED aloc
             [] apc[c] = "e_zadd" ->
                  /\ store' = zadd(store, a.job_id, score(a.priority, a.ts))
                  /\ apc' = [apc EXCEPT ![c] = IF a.deduplicate THEN "e_setex"
                                                                ELSE "e_hincrby"]
                  /\ UNCHANGED aloc
             [] apc[c] = "e_setex" ->
                  /\ store' = setex_url(store, url_hash(a.url), a.job_id)
                  /\ apc' = [apc EXCEPT ![c] = "e_hincrby"]
                  /\ UNCHANGED aloc
             [] apc[c] = "e_hincrby" ->
                  /\ store' = hincrby(store, "total_queued")
                  /\ apc' = [apc EXCEPT ![c] = "idle"]
                  /\ aloc' = [aloc EXCEPT ![c] = NoArgs]
        /\ UNCHANGED <<paused, now, call, hist, others, pc, local, current_job, traj, terminal,
                       handler_ok, all_dedup, faults>>

EnqTick == Tick

\* A worker takes the next job and completes it (dequeue and complete, each
\* from call to return).
EnqDequeue == DequeueCall

EnqComplete ==
    \E job_id \in store.active :
        /\ CompleteStep(job_id)
        /\ UNCHANGED <<hist, others, tasks>>

NextEnq ==
    \/ EnqTick
    \/ \E c \in Clients : ApiCall(c)
    \/ \E c \in Clients : ApiEnqueue(c)
    \/ EnqDequeue
    \/ EnqComplete

SpecEnq == Init /\ [][NextEnq]_vars

\* ------------------------------------- SpecStop: start, stop and scale
\* The pool from its construction on: WorkerPool.start, stop and scale are
\* called one at a time while the workers that run process jobs. A Worker
\* object is a slot of Workers; a slot no longer in the list is free again.
\* Worker.stop cancels the worker's task and awaits it: CancelledError is
\* raised at the await the task is suspended at, passes `except Exception`
\* (it is a BaseException), runs `finally: self.current_job = None` when inside
\* the inner try, and ends the loop at `except asyncio.CancelledError: break`.

\* The pool and its workers as one value.
PoolState ==
    [pool_running |-> pool_running, workers |-> workers, num_workers |-> num_workers,
     running |-> running, worker_id |-> worker_id, pc |-> pc, local |-> local,
     current_job |-> current_job]

Range(q) == {q[i] : i \in 1..Len(q)}

FreeSlots(p) == Workers \ Range(p.workers)

\* Worker(i, self) appended to the list
worker_new(p, w, i) ==
    [p EXCEPT !.workers = Append(@, w), !.worker_id[w] = i, !.running[w] = FALSE,
              !.pc[w] = "new",
              !.local[w] = NoLocal, !.current_job[w] = NoJob]

\* Worker.start
worker_start(p, w) ==
    IF p.running[w] THEN p
    ELSE [p EXCEPT !.running[w] = TRUE, !.pc[w] = "idle"]

\* Worker.stop, from call to return
worker_stop(p, w) ==
    IF p.pc[w] = "new"
    THEN [p EXCEPT !.running[w] = FALSE]
    ELSE [p EXCEPT !.running[w] = FALSE, !.pc[w] = "stopped",
                   !.local[w] = NoLocal, !.current_job[w] = NoJob]

\* k times, for the ids i, i + 1, ...: create a worker, and start it when
\* `start` holds
RECURSIVE add_workers(_, _, _, _)
add_workers(p, i, k, start) ==
    IF k = 0 \/ FreeSlots(p) = {} THEN p
    ELSE LET w == CHOOSE x \in FreeSlots(p) : \A y \in FreeSlots(p) : x <= y
             p1 == worker_new(p, w, i)
         IN  add_workers(IF start THEN worker_start(p1, w) ELSE p1, i + 1, k - 1, start)

\* worker.stop() for each worker of ws, in order
RECURSIVE stop_workers(_, _)
stop_workers(p, ws) ==
    IF ws = << >> THEN p ELSE stop_workers(worker_stop(p, Head(ws)), Tail(ws))

\* WorkerPool.start
pool_start(p) ==
    IF p.pool_running THEN p
    ELSE add_workers([p EXCEPT !.pool_running = TRUE], 0, p.num_workers, TRUE)

\* WorkerPool.stop
pool_stop(p) ==
    [stop_workers([p EXCEPT !.pool_running = FALSE], p.workers) EXCEPT !.workers = << >>]

\* WorkerPool.scale(m)
scale(p, m) ==
    LET current == Len(p.workers)
        p1 == IF m > current THEN add_workers(p, current, m - current, p.pool_running)
              ELSE IF m < current
                   THEN stop_workers([p EXCEPT !.workers = SubSeq(@, 1, m)],
                                     SubSeq(p.workers, m + 1, current))
                   ELSE p
    IN  [p1 EXCEPT !.num_workers = m]

SetPool(p) ==
    /\ pool_running' = p.pool_running
    /\ workers' = p.workers
    /\ num_workers' = p.num_workers
    /\ running' = p.running
    /\ worker_id' = p.worker_id
    /\ pc' = p.pc
    /\ local' = p.local
    /\ current_job' = p.current_job
    /\ UNCHANGED <<store, paused, now, call, hist, fetchv, routev, sidev, apc, aloc, traj, terminal,
                   handler_ok, all_dedup, faults>>

PoolStartCall ==
    /\ pool_running \/ Len(workers) + num_workers <= NumWorkers
    /\ SetPool(pool_start(PoolState))

PoolStopCall ==
    LET p == pool_stop(PoolState)
    IN  /\ p.workers = << >>
        /\ SetPool(p)

ScaleStep(m) == SetPool(scale(PoolState, m))

ScaleCall ==
    \E m \in 0..NumWorkers :
        /\ m - Len(workers) <= Cardinality(FreeSlots(PoolState))
        /\ ScaleStep(m)

StopEnqueue == PoolEnqueue

\* The pool constructed, not started (WorkerPool.__init__).
InitConstructed ==
    /\ pool_running = FALSE
    /\ workers = << >>
    /\ num_workers = NumWorkers
    /\ running = [w \in Workers |-> FALSE]
    /\ worker_id = [w \in Workers |-> 0]
    /\ pc = [w \in Workers |-> "new"]
    /\ local = [w \in Workers |-> NoLocal]
    /\ current_job = [w \in Workers |-> NoJob]
    /\ apc = [c \in Clients |-> "idle"]
    /\ aloc = [c \in Clients |-> NoArgs]
    /\ traj = [j \in JobIds |-> << >>]
    /\ terminal = [j \in JobIds |-> 0]
    /\ handler_ok = [j \in JobIds |-> FALSE]
    /\ all_dedup = TRUE
    /\ faults = 0

InitStop == InitQueue /\ InitConstructed /\ InitEngine /\ InitLoaded /\ InitQuiet

NextStop ==
    \/ PoolStartCall
    \/ PoolStopCall
    \/ ScaleCall
    \/ StopEnqueue
    \/ \E w \in Workers : WDequeue(w)
    \/ \E w \in Workers : WDequeueRest(w)
    \/ \E w \in Workers : WHandler(w)
    \/ \E w \in Workers : WComplete(w)
    \/ \E w \in Workers : WFail(w)

SpecStop == InitStop /\ [][NextStop]_vars

\* ----------------------------------- SpecFault: fail() raising as well
\* The worker pool of SpecPool where a store command awaited inside fail() may
\* raise too. fail(job["id"], result.get("error")) is awaited inside the inner
\* try: its exception is caught by `except Exception as e`, which calls
\* fail(job["id"], str(e)). An exception of that second call (or of the fail
\* call made for an exception of complete) leaves the inner try through
\* `finally: self.current_job = None` and is caught by the outer
\* `except Exception`, which sleeps and goes on with the loop.
WFailRaise(w) ==
    /\ pc[w] \in FailPcs
    /\ faults < MaxFaults
    /\ faults' = faults + 1
    /\ IF local[w].error = HANDLER_ERROR
       THEN /\ pc' = [pc EXCEPT ![w] = "f_srem"]
            /\ local' = [local EXCEPT ![w] = [NoLocal EXCEPT !.job = local[w].job,
                                                            !.error = EXCEPTION_ERROR]]
            /\ UNCHANGED current_job
       ELSE /\ pc' = [pc EXCEPT ![w] = "idle"]
            /\ local' = [local EXCEPT ![w] = NoLocal]
            /\ current_job' = [current_job EXCEPT ![w] = NoJob]
    /\ UNCHANGED <<store, paused, now, call, hist, others, apc, aloc, traj, terminal,
                   handler_ok, all_dedup>>

NextFault ==
    \/ NextPool
    \/ \E w \in Workers : WFailRaise(w)

SpecFault == Init /\ [][NextFault]_vars

\* ------------------------------------------- SpecCrash: process restart
\* The process dies at any point and is started again: every task and every
\* field of QueueManager, Worker and WorkerPool is gone, the Redis keyspace is
\* kept. The lifespan handler of main.py connects and calls worker_pool.start();
\* nothing reads galion:queue:active at start-up.
Crash ==
    /\ pc' = [w \in Workers |-> "idle"]
    /\ local' = [w \in Workers |-> NoLocal]
    /\ current_job' = [w \in Workers |-> NoJob]
    /\ paused' = FALSE
    /\ UNCHANGED <<store, now, call, hist, others, apc, aloc, traj, terminal, handler_ok,
                   all_dedup, faults>>

Restart ==
    /\ \E w \in Workers : pc[w] # "idle"
    /\ Crash

NextCrash ==
    \/ NextPool
    \/ Restart

SpecCrash == Init /\ [][NextCrash]_vars

\* ------------------------------------------ SpecPause: pause and resume
\* The calls of Spec with pause(), resume() and update_progress() added; the
\* clock stands still. update_progress is called by a worker's progress
\* callback, for the job it is processing.
Progresses == {50}

PauseStep ==
    /\ paused' = TRUE
    /\ call' = [NoCall EXCEPT !.op = "pause"]
    /\ UNCHANGED <<store, now>>

PauseCall ==
    /\ PauseStep
    /\ UNCHANGED <<hist, tasks, others>>

ResumeStep ==
    /\ paused' = FALSE
    /\ call' = [NoCall EXCEPT !.op = "resume"]
    /\ UNCHANGED <<store, now>>

ResumeCall ==
    /\ ResumeStep
    /\ UNCHANGED <<hist, tasks, others>>

ProgressStep(job_id, progress) ==
    /\ job_id \in store.active
    /\ store' = update_progress(store, job_id, progress, 0, 0)
    /\ call' = [NoCall EXCEPT !.op = "update_progress", !.id = job_id]
    /\ UNCHANGED <<paused, now>>

ProgressCall ==
    \E job_id \in JobIds, progress \in Progresses :
        /\ ProgressStep(job_id, progress)
        /\ UNCHANGED <<hist, tasks, others>>

PauseEnqueue ==
    \E url \in Urls, priority \in Priorities, job_id \in NewIds :
        /\ EnqueueStep(url, priority, FALSE, job_id)
        /\ UNCHANGED <<hist, tasks, others>>

PauseDequeue == DequeueCall

PauseComplete == CompleteCall

PauseFail == FailCall

NextPause ==
    \/ PauseCall
    \/ ResumeCall
    \/ ProgressCall
    \/ PauseEnqueue
    \/ PauseDequeue
    \/ PauseComplete
    \/ PauseFail

SpecPause == Init /\ [][NextPause]_vars

\* ------------------------------------- SpecFetch: DownloadEngine.download_file
\* download_file(url, dest_path, verify_checksum=...) against one server and
\* one destination path, called any number of times; a call runs from call to
\* return as one action. File contents are byte sequences. The server holds
\* `content`; its HEAD reply carries Content-Length ("ok"), carries none
\* ("nolength"), or HEAD fails with an httpx.HTTPError ("error"). The file
\* system may refuse one operation on the destination (dest.fault).
Bytes == {1, 2}

Seqs(n) == UNION {[1..m -> Bytes] : m \in 0..n}

Contents == Seqs(MaxLen) \ {<< >>}

Heads == {"ok", "nolength", "error"}

FsFaults == {"none", "mkdir", "stat", "open"}

\* How the server answers the GET: "honor" serves a Range request with 206 and
\* the bytes from the offset on; "full" answers 200 with the whole content
\* whatever was asked; "status_error" answers with a non-2xx status; "drop"
\* honors the request and breaks the connection after k bytes of the body.
GetBehaviours == {"honor", "full", "status_error", "drop"}

\* verify_checksum: None, the digest of the remote content, or another digest
Verifies == {"none", "match", "mismatch"}

Remotes == [content : Contents, head : Heads, accept_ranges : BOOLEAN]

Dests ==
    [exists : {FALSE}, data : {<< >>}, fault : FsFaults]
        \cup [exists : {TRUE}, data : Seqs(MaxLen), fault : FsFaults]

\* hashlib.sha256 of a byte sequence: distinct contents have distinct digests
sha256(data) == <<"sha256", data>>

\* Mutant of expected_checksum: the digest compared with is always that of
\* the remote content, whatever the caller passed.
expected_checksum_ignored(r, verify) == sha256(r.content)

expected_checksum(r, verify) ==
    IF verify = "match" THEN sha256(r.content) ELSE <<"sha256", <<0>>>>

\* get_remote_info: the size and accepts_ranges fields
remote_size(r) == IF r.head = "ok" THEN Len(r.content) ELSE 0

\* Mutant of remote_accepts_ranges: Accept-Ranges is never recognised.
remote_accepts_ranges_never(r) == FALSE

remote_accepts_ranges(r) == r.head # "error" /\ r.accept_ranges

DownloadResult(success, error, resumed, file_size, checksum) ==
    [outcome |-> "returned", success |-> success, error |-> error, resumed |-> resumed,
     file_size |-> file_size, checksum |-> checksum]

\* an exception leaving download_file
Raised(error) == [NoResult EXCEPT !.outcome = "raised", !.error = error]

\* Mutant of open_mode: the destination is always truncated.
open_mode_truncate(resumed) == "wb"

\* mode = "ab" if resumed else "wb"
open_mode(resumed) == IF resumed THEN "ab" ELSE "wb"

\* Mutant of final_checksum: the digest of the hasher fed by the stream.
final_checksum_streamed(file, streamed) == sha256(streamed)

\* checksum = await self._calculate_checksum(dest_path): the digest is read
\* back from the file; the hasher updated chunk by chunk is not used
final_checksum(file, streamed) == sha256(file)

\* the body of the response to GET with the given Range offset
response_body(r, range, get) ==
    IF range # NoRange /\ get # "full"
    THEN SubSeq(r.content, range + 1, Len(r.content))
    ELSE r.content

\* download_file from the request on: existing is existing_size after the
\* range decision, range the offset of the Range header sent (or NoRange)
stream_to_file(d, r, existing, range, resumed, get, k, verify) ==
    LET req == [sent |-> TRUE, range |-> range]
        body == response_body(r, range, get)
        delivered == IF get = "drop" /\ k < Len(body) THEN SubSeq(body, 1, k) ELSE body
        opened == IF open_mode(resumed) = "ab" THEN d.data ELSE << >>
        written == [d EXCEPT !.exists = TRUE, !.data = opened \o delivered]
        downloaded == existing + Len(body)
        checksum == final_checksum(written.data, delivered)
    IN  IF get = "status_error"
        THEN [dest |-> d, request |-> req,
              returned |-> DownloadResult(FALSE, "HTTP error", resumed, 0, << >>)]
        ELSE IF d.fault = "open"
        THEN [dest |-> d, request |-> req,
              returned |-> DownloadResult(FALSE, "OSError", resumed, 0, << >>)]
        ELSE IF get = "drop"
        THEN [dest |-> written, request |-> req,
              returned |-> DownloadResult(FALSE, "HTTP error", resumed, 0, << >>)]
        ELSE IF verify # "none" /\ checksum # expected_checksum(r, verify)
        THEN [dest |-> written, request |-> req,
              returned |-> DownloadResult(FALSE, "Checksum verification failed", resumed,
                                          downloaded, checksum)]
        ELSE [dest |-> written, request |-> req,
              returned |-> DownloadResult(TRUE, "", resumed, downloaded, checksum)]

\* DownloadEngine.download_file
download_file(d, r, get, k, verify) ==
    LET found == IF d.exists THEN Len(d.data) ELSE 0
        total_size == remote_size(r)
    IN  IF d.fault = "mkdir" \/ (d.exists /\ d.fault = "stat")
        THEN [dest |-> d, request |-> NoRequest, returned |-> Raised("OSError")]
        ELSE IF found > 0 /\ remote_accepts_ranges(r)
        THEN IF found < total_size
             THEN stream_to_file(d, r, found, found, TRUE, get, k, verify)
             ELSE IF found = total_size
             THEN [dest |-> d, request |-> NoRequest,
                   returned |-> IF d.fault = "open"
                                THEN DownloadResult(FALSE, "OSError", FALSE, 0, << >>)
                                ELSE DownloadResult(TRUE, "", TRUE, total_size,
                                                    sha256(d.data))]
             ELSE stream_to_file(d, r, found, NoRange, FALSE, get, k, verify)
        ELSE stream_to_file(d, r, 0, NoRange, FALSE, get, k, verify)

FetchStep(get, k, verify) ==
    LET f == download_file(dest, remote, get, k, verify)
    IN  /\ dest' = f.dest
        /\ request' = f.request
        /\ returned' = f.returned
        /\ UNCHANGED remote

DownloadFile ==
    \E get \in GetBehaviours, k \in 0..(MaxLen - 1), verify \in Verifies :
        /\ get = "drop" \/ k = 0
        /\ FetchStep(get, k, verify)
        /\ UNCHANGED <<store, paused, now, call, hist, tasks, poolv, routev, sidev>>

InitFetch ==
    /\ InitQueue
    /\ InitPool
    /\ InitStarted
    /\ remote \in Remotes
    /\ dest \in Dests
    /\ request = NoRequest
    /\ returned = NoResult
    /\ InitLoaded
    /\ InitQuiet

NextFetch == DownloadFile

SpecFetch == InitFetch /\ [][NextFetch]_vars

\* ------------------------------------------ SpecRoute: detect on the loaded registry
\* detect(url) on the registry load_all_platforms() built, for each URL of
\* RouteUrls.
DetectCall ==
    \E u \in RouteUrls :
        /\ detect_url' = u
        /\ detected' = detect(registry, u)
        /\ UNCHANGED <<registry, given>>
        /\ UNCHANGED <<store, paused, now, call, hist, tasks, poolv, fetchv, sidev>>

NextRoute == DetectCall

SpecRoute == Init /\ [][NextRoute]_vars

\* ------------------------------------------ SpecRegistry: register calls
\* register(handler_class, priority) called any number of times on an empty
\* registry, for some of the handlers and some priorities.
RegisterIds == {"news", "youtube", "reddit", "civitai", "generic"}

RegisterPriorities == {10, 50, 90}

RegisterCall ==
    \E id \in RegisterIds, priority \in RegisterPriorities :
        /\ registry' = register(registry, id, priority)
        /\ given' = IF id \in DOMAIN given THEN given ELSE (id :> priority) @@ given
        /\ UNCHANGED <<detect_url, detected>>
        /\ UNCHANGED <<store, paused, now, call, hist, tasks, poolv, fetchv, sidev>>

InitRegistry ==
    /\ InitQueue
    /\ InitPool
    /\ InitStarted
    /\ InitEngine
    /\ registry = EmptyRegistry
    /\ given = NoGiven
    /\ detect_url = << >>
    /\ detected = NoInfo
    /\ InitQuiet

NextRegistry == RegisterCall

SpecRegistry == InitRegistry /\ [][NextRegistry]_vars

\* ------------------------------------------- SpecKinds: failures by their kind
\* One caller at a time, as in Spec, with the error a failed attempt reports
\* drawn from the strings the handlers and the engine produce: a non-2xx
\* response and a broken connection (download_file's "HTTP error: ..."), a
\* digest mismatch, and an extractor that exits non-zero. The worker passes the
\* string to fail(job_id, error) and leaves retry at its default, True.
ResultErrors ==
    {"HTTP error: 404", "HTTP error: timed out", "Checksum verification failed",
     "yt-dlp failed"}

WorkerFail ==
    \E job_id \in JobIds, error \in ResultErrors :
        /\ FailStep(job_id, error, TRUE)
        /\ UNCHANGED <<hist, tasks, others>>

KindEnqueue ==
    \E url \in Urls, job_id \in NewIds :
        /\ EnqueueStep(url, DEFAULT_PRIORITY, FALSE, job_id)
        /\ UNCHANGED <<hist, tasks, others>>

NextKinds ==
    \/ Tick
    \/ KindEnqueue
    \/ DequeueCall
    \/ WorkerFail

SpecKinds == Init /\ [][NextKinds]_vars

\* =================================================================== claims
Pos(x, q) == CHOOSE i \in 1..Len(q) : q[i] = x

\* C1: dequeue pops a job of least score: after a pop no pending job has a
\* strictly smaller score than the job popped, and the jobs popped by repeated
\* dequeue calls (no enqueue in between) come out in non-decreasing score order,
\* every higher priority before every lower one, whatever the arrival order.
C1_DequeueScoreOrder ==
    /\ deq_run # << >> =>
          \A k \in DOMAIN store.pending :
              store.pending[k] >= deq_run[Len(deq_run)].score
    /\ \A i, j \in 1..Len(deq_run) :
          i < j => /\ deq_run[i].score <= deq_run[j].score
                   /\ deq_run[i].priority >= deq_run[j].priority
    /\ \A i \in 1..Len(deq_run), k \in 1..Len(enq_order) :
          enq_order[k][1] = deq_run[i].id =>
              deq_run[i].score = (10 - enq_order[k][2]) * SCORE_WEIGHT + enq_order[k][3]

\* C1 witness: the lower priority arrived first and the clock advanced before
\* the higher priority arrived; the higher priority was popped first.
C1_Witness ==
    /\ Len(deq_run) = 2
    /\ Len(enq_order) = 2
    /\ deq_run[1].priority > deq_run[2].priority
    /\ deq_run[1].id = enq_order[2][1]
    /\ deq_run[2].id = enq_order[1][1]
    /\ enq_order[1][3] < enq_order[2][3]

\* C2: FIFO within a priority class: of two jobs enqueued with the same
\* priority, the one enqueued first is dequeued first.
C2_FifoWithinPriority ==
    \A i, j \in 1..Len(enq_order) :
        (/\ i < j
         /\ enq_order[i][2] = enq_order[j][2]
         /\ InSeq(enq_order[j][1], deq_first))
        => /\ InSeq(enq_order[i][1], deq_first)
           /\ Pos(enq_order[i][1], deq_first) < Pos(enq_order[j][1], deq_first)

\* C4: enqueue with deduplicate=true of a URL whose fingerprint is present
\* returns null and leaves the whole store as it was (no record, pending
\* unchanged, total_queued not incremented).
C4_DuplicateEnqueueNoOp ==
    [][\A url \in Urls, priority \in Priorities, job_id \in JobIds \cup {NoJob} :
          (/\ EnqueueStep(url, priority, TRUE, job_id)
           /\ store.urls[url] # NoJob)
          => /\ call'.ret = NoJob
             /\ store'.jobs = store.jobs
             /\ store'.pending = store.pending
             /\ store'.stats.total_queued = store.stats.total_queued
             /\ store' = store]_vars

\* C4 witness: the same URL was enqueued twice with deduplicate=true; the
\* second call returned null and exactly one job is pending.
C4_Witness ==
    /\ call.op = "enqueue"
    /\ call.deduplicate
    /\ call.ret = NoJob
    /\ store.urls[call.url] # NoJob
    /\ Cardinality(DOMAIN store.pending) = 1
    /\ store.stats.total_queued = 1

\* C7: fail applies the retry policy exactly. With retry=true and retry_count
\* below max_retries (3 unless the record says otherwise): priority becomes
\* max(0, priority - 1), retry_count grows by one, last_error is recorded,
\* status is pending, the id leaves active and is in pending with the score of
\* the new priority and the current time, total_failed and the dead-letter log
\* are unchanged. Otherwise: status is failed, the id leaves active, is in the
\* dead-letter log once, total_failed grows by one, the id is not in pending.
C7_RetryPolicy ==
    [][\A j \in JobIds, e \in Errors, r \in BOOLEAN :
          FailStep(j, e, r) =>
            LET old == store.jobs[j]
                new == store'.jobs[j]
                rc == IF "retry_count" \in DOMAIN old THEN old.retry_count ELSE 0
                np == IF old.priority >= 1 THEN old.priority - 1 ELSE 0
            IN  IF r /\ rc < 3
                THEN /\ new.priority = np
                     /\ new.retry_count = rc + 1
                     /\ new.last_error = e
                     /\ new.status = "pending"
                     /\ j \notin store'.active
                     /\ j \in DOMAIN store'.pending
                     /\ store'.pending[j] = (10 - np) * SCORE_WEIGHT + now
                     /\ store'.stats.total_failed = store.stats.total_failed
                     /\ store'.failed = store.failed
                ELSE /\ new.status = "failed"
                     /\ j \notin store'.active
                     /\ Count(j, store.failed) = 0
                     /\ Count(j, store'.failed) = 1
                     /\ store'.stats.total_failed = store.stats.total_failed + 1
                     /\ j \notin DOMAIN store'.pending]_vars

\* C7 witness: a job of priority 0 was retried three times with its priority
\* held at 0, and a fourth fail(retry=true) dead-lettered it.
C7_Witness ==
    /\ call.op = "fail"
    /\ call.retry
    /\ Status(store, call.id) = "failed"
    /\ store.jobs[call.id].priority = 0
    /\ store.jobs[call.id].retry_count = 3
    /\ store.jobs[call.id].last_error \in Errors
    /\ store.failed = <<call.id>>
    /\ store.stats.total_failed = 1

\* C9 as stated: every job whose status is failed has retry_count equal to
\* max_retries (a missing retry_count reads as 0, a missing max_retries as 3),
\* whatever fail call put it there, fail(retry=false) included.
C9_FailedHasMaxRetries ==
    \A j \in JobIds :
        Status(store, j) = "failed" =>
            Get(store.jobs[j], "retry_count", 0) = Get(store.jobs[j], "max_retries", 3)

\* C9 amended: every job that a fail call with retry=true dead-letters has
\* retry_count equal to max_retries.
C9_RetriedFailedHasMaxRetries ==
    [][\A j \in JobIds, e \in Errors :
          (FailStep(j, e, TRUE) /\ Status(store', j) = "failed")
          => /\ "retry_count" \in DOMAIN store'.jobs[j]
             /\ store'.jobs[j].retry_count = Get(store'.jobs[j], "max_retries", 3)]_vars

\* C9 witness: fail(retry=true) has just dead-lettered a job.
C9_Witness ==
    /\ call.op = "fail"
    /\ call.retry
    /\ Status(store, call.id) = "failed"
    /\ Get(store.jobs[call.id], "retry_count", 0) = 3

\* C10: complete is idempotent: a complete call for an id that is no longer in
\* active changes neither total_completed, nor the completed log, nor the record.
C10_CompleteIdempotent ==
    [][\A j \in JobIds :
          (CompleteStep(j) /\ j \notin store.active)
          => /\ store'.stats.total_completed = store.stats.total_completed
             /\ store'.completed = store.completed
             /\ store'.jobs[j] = store.jobs[j]]_vars

\* A worker holds job j: it popped j and has not yet called complete or fail.
Holding(w, j) ==
    /\ local[w].job = j
    /\ pc[w] \in {"deq_sadd", "deq_hgetall", "deq_srem", "deq_hset", "handler"}

\* C3: a pending job is handed to at most one worker: no two workers have the
\* same current_job, and while a worker holds a job it popped (before it calls
\* complete or fail) no other worker has dequeued that job.
C3_SingleHolder ==
    \A w1, w2 \in Workers :
        w1 # w2 =>
            /\ current_job[w1] # NoJob => current_job[w1] # current_job[w2]
            /\ \A j \in JobIds : Holding(w1, j) => local[w2].job # j

\* C3 witness: both workers are processing a job, one of them a job that was
\* handed out before (a retry).
C3_Witness ==
    /\ \A w \in Workers : current_job[w] # NoJob /\ pc[w] = "handler"
    /\ \E w \in Workers : Get(store.jobs[current_job[w]], "retry_count", 0) >= 1

NonTerminal(j) == Status(store, j) \in {"pending", "processing"}

\* C5: when every enqueue passes deduplicate=true, at most one job per URL
\* fingerprint is pending or processing, also with enqueue calls interleaved.
C5_OneLiveJobPerFingerprint ==
    all_dedup =>
        \A j1, j2 \in JobIds :
            (/\ NonTerminal(j1)
             /\ NonTerminal(j2)
             /\ store.jobs[j1].url_hash = store.jobs[j2].url_hash)
            => j1 = j2

\* C6: at most one terminal transition per job: complete() calls plus
\* dead-lettering fail() calls are at most one, total_completed + total_failed
\* never exceeds total_queued, and no job is in the completed log and also in
\* pending or in the dead-letter log; also when a command of complete() raises.
C6_AtMostOneTerminal ==
    /\ \A j \in JobIds : terminal[j] <= 1
    /\ store.stats.total_completed + store.stats.total_failed <= store.stats.total_queued
    /\ \A j \in JobIds :
          InSeq(j, store.completed) =>
              (j \notin DOMAIN store.pending /\ ~InSeq(j, store.failed))

\* No worker is inside a queue call for job j.
Settled(j) == \A w \in Workers : local[w].job # j

FailedJobs == {j \in JobIds : Status(store, j) = "failed"}

\* C8 as stated: a job (max_retries = 3) whose handler fails on every attempt
\* is attempted three times: pending, processing, pending, processing, pending,
\* processing, failed; afterwards total_failed = 1.
C8_ThreeAttempts ==
    \A j \in JobIds :
        (Status(store, j) = "failed" /\ ~handler_ok[j]) =>
            /\ traj[j] = <<"pending", "processing", "pending", "processing",
                           "pending", "processing", "failed">>
            /\ (Settled(j) /\ FailedJobs = {j}) => store.stats.total_failed = 1

\* C8 amended: such a job is attempted four times (the first attempt and three
\* retries): pending, processing, pending, processing, pending, processing,
\* pending, processing, failed; afterwards total_failed = 1.
C8_FourAttempts ==
    \A j \in JobIds :
        (Status(store, j) = "failed" /\ ~handler_ok[j]) =>
            /\ traj[j] = <<"pending", "processing", "pending", "processing",
                           "pending", "processing", "pending", "processing", "failed">>
            /\ (Settled(j) /\ FailedJobs = {j}) => store.stats.total_failed = 1

\* C8 witness: a job whose handler always failed is dead-lettered, fail has
\* returned and total_failed is 1.
C8_Witness ==
    \E j \in JobIds :
        /\ Status(store, j) = "failed"
        /\ ~handler_ok[j]
        /\ Settled(j)
        /\ store.stats.total_failed = 1
        /\ store.jobs[j].retry_count = 3

\* C11: a stopped worker never leaves a job behind: every job in the active
\* set with status processing is in the hands of a worker task that will call
\* complete or fail for it.
C11_StopLeavesNoActiveJob ==
    \A j \in JobIds :
        (j \in store.active /\ Status(store, j) = "processing")
            => \E w \in Workers : local[w].job = j

\* C15: after scale(m) returns the pool holds exactly m workers and all of
\* them are running, and the workers removed have exited.
C15_ScaleReachesM ==
    [][\A m \in 0..NumWorkers :
          ScaleStep(m) =>
              /\ Len(workers') = m
              /\ \A i \in 1..m : /\ running'[workers'[i]]
                                 /\ pc'[workers'[i]] \notin {"new", "stopped"}
              /\ \A i \in (m + 1)..Len(workers) :
                    pc'[workers[i]] \in {"new", "stopped"}]_vars

\* C12: a failed attempt is failed once: for a job whose handler returned a
\* failure on every attempt so far, each status processing is followed by one
\* status written by fail (pending or failed) before the next attempt.
C12_OneFailPerAttempt ==
    \A j \in JobIds :
        \A i \in 1..(Len(traj[j]) - 1) :
            traj[j][i] # "processing" => traj[j][i + 1] = "processing"

\* C13: no job is lost by a restart: every job that was enqueued and has not
\* reached completed or failed is in the pending set, or in the hands of a
\* worker task that will complete or fail it.
C13_UnfinishedJobIsPendingOrHeld ==
    \A j \in JobIds :
        Status(store, j) \in {"pending", "processing"}
            => \/ j \in DOMAIN store.pending
               \/ \E w \in Workers : local[w].job = j

\* C14: while the queue is paused a dequeue call returns None and leaves the
\* store as it is, while enqueue, complete, fail and update_progress take
\* effect; pause and resume leave the store as it is, and a dequeue call made
\* while the queue is not paused pops a pending job of least score: the pause
\* loses and reorders nothing.
C14_PauseIsAdvisory ==
    [][/\ (paused /\ DequeueStep) => (call'.ret = NoJob /\ store' = store)
       /\ (PauseStep \/ ResumeStep) => store' = store
       /\ (~paused /\ DequeueStep /\ DOMAIN store.pending # {}) =>
             /\ call'.id \in DOMAIN store.pending
             /\ \A k \in DOMAIN store.pending :
                   store.pending[call'.id] <= store.pending[k]
             /\ DOMAIN store'.pending = DOMAIN store.pending \ {call'.id}
             /\ call'.id \in store'.active
       /\ \A url \in Urls, priority \in Priorities, job_id \in JobIds :
             (paused /\ EnqueueStep(url, priority, FALSE, job_id)) =>
                 /\ job_id \in DOMAIN store'.pending
                 /\ Status(store', job_id) = "pending"
                 /\ store'.stats.total_queued = store.stats.total_queued + 1
       /\ \A job_id \in JobIds :
             (paused /\ CompleteStep(job_id)) =>
                 /\ job_id \notin store'.active
                 /\ Status(store', job_id) = "completed"
       /\ \A job_id \in JobIds, error \in Errors, retry \in BOOLEAN :
             (paused /\ FailStep(job_id, error, retry)) =>
                 /\ job_id \notin store'.active
                 /\ \/ Status(store', job_id) = "pending" /\ job_id \in DOMAIN store'.pending
                    \/ Status(store', job_id) = "failed" /\ InSeq(job_id, store'.failed)
       /\ \A job_id \in JobIds, progress \in Progresses :
             (paused /\ ProgressStep(job_id, progress)) =>
                 /\ store'.jobs[job_id].progress = progress
                 /\ store'.active = store.active
      ]_vars

\* C14 witness: dequeue was called while the queue was paused, with a job
\* pending and another one being processed, and returned None.
C14_Witness ==
    /\ paused
    /\ call.op = "dequeue"
    /\ call.ret = NoJob
    /\ DOMAIN store.pending # {}
    /\ store.active # {}

\* C16: the view a dequeue call returns is the job record as stored after the
\* call: it has status processing and started_at set.
C16_DequeueReturnsStoredView ==
    [][(DequeueStep /\ call'.ret # NoJob) =>
          LET view == dequeue(store, paused, now).ret
          IN  /\ view = store'.jobs[call'.ret]
              /\ Get(view, "status", "none") = "processing"
              /\ "started_at" \in DOMAIN view]_vars

\* The counts get_stats() reads from the sets.
pending_count(s) == Cardinality(DOMAIN s.pending)

active_count(s) == Cardinality(s.active)

\* C17: the counters agree with the sets between calls:
\* total_queued = pending + active + total_completed + total_failed.
C17_StatsBalance ==
    store.stats.total_queued =
        pending_count(store) + active_count(store)
            + store.stats.total_completed + store.stats.total_failed

\* The destination holds a non-empty proper prefix of the remote content and
\* the file system refuses nothing.
HoldsProperPrefix ==
    /\ dest.exists
    /\ dest.fault = "none"
    /\ Len(dest.data) > 0
    /\ Len(dest.data) < Len(remote.content)
    /\ dest.data = SubSeq(remote.content, 1, Len(dest.data))

\* The call resumed: Range: bytes=|P|- was sent, the result is a success with
\* resumed=true and the destination holds the complete content.
ResumedToCompletion ==
    /\ request'.sent
    /\ request'.range = Len(dest.data)
    /\ returned'.outcome = "returned"
    /\ returned'.success
    /\ returned'.resumed
    /\ dest'.data = remote.content

\* C18 as stated: a destination holding a proper prefix, a server advertising
\* Accept-Ranges: bytes and serving the range request, give a resumed fetch.
C18_ResumeWhenRangesAdvertised ==
    [][\A get \in GetBehaviours, k \in 0..(MaxLen - 1), verify \in Verifies :
          (/\ FetchStep(get, k, verify)
           /\ HoldsProperPrefix
           /\ remote.head # "error"
           /\ remote.accept_ranges
           /\ get = "honor"
           /\ verify # "mismatch") => ResumedToCompletion]_vars

\* C18 amended: the same, for a server whose HEAD reply also reports the
\* length of the content.
C18_ResumeWhenLengthKnown ==
    [][\A get \in GetBehaviours, k \in 0..(MaxLen - 1), verify \in Verifies :
          (/\ FetchStep(get, k, verify)
           /\ HoldsProperPrefix
           /\ remote.head = "ok"
           /\ remote.accept_ranges
           /\ get = "honor"
           /\ verify # "mismatch") => ResumedToCompletion]_vars

\* C18 witness: a call sent a Range request from inside the content and
\* returned a resumed success with the complete content on disk.
C18_Witness ==
    /\ returned.outcome = "returned"
    /\ returned.success
    /\ returned.resumed
    /\ request.sent
    /\ request.range > 0
    /\ request.range < Len(remote.content)
    /\ dest.data = remote.content
    /\ returned.file_size = Len(remote.content)

\* C19: when a Range request is answered with 200 and the full body, a
\* successful call leaves the complete remote content on disk.
C19_FullBodyOverwrites ==
    [][\A k \in 0..(MaxLen - 1), verify \in Verifies :
          (/\ FetchStep("full", k, verify)
           /\ request'.sent
           /\ request'.range # NoRange
           /\ returned'.success) => dest'.data = remote.content]_vars

\* C20: download_file never raises, and a failure it returns carries an
\* error string.
C20_NeverRaises ==
    /\ returned.outcome # "raised"
    /\ (returned.outcome = "returned" /\ ~returned.success) => returned.error # ""

\* C21: a call that finds a non-empty destination file whose size is the
\* Content-Length of a HEAD reply advertising Accept-Ranges: bytes, on a file
\* system that refuses nothing, sends no GET, leaves the file as it is and
\* returns success with the digest of that file; the state it leaves satisfies
\* the same condition, so every repetition gives the same file and checksum.
C21_CompleteFileNotRefetched ==
    [][(/\ dest.exists
        /\ dest.data # << >>
        /\ dest.fault = "none"
        /\ remote.head = "ok"
        /\ remote.accept_ranges
        /\ Len(dest.data) = Len(remote.content))
       => (/\ ~request'.sent
           /\ dest' = dest
           /\ returned'.outcome = "returned"
           /\ returned'.success
           /\ returned'.checksum = sha256(dest.data))]_vars

\* C21 as stated: the same for every destination file whose size equals the
\* probed remote size, whether or not the remote accepts ranges.
C21_AnyCompleteFileNotRefetched ==
    [][(/\ dest.exists
        /\ dest.fault = "none"
        /\ Len(dest.data) = remote_size(remote))
       => (/\ ~request'.sent
           /\ dest' = dest
           /\ returned'.outcome = "returned"
           /\ returned'.success
           /\ returned'.checksum = sha256(dest.data))]_vars

\* a call has returned success without sending a GET
C21_Witness ==
    /\ returned.outcome = "returned"
    /\ returned.success
    /\ ~request.sent
    /\ dest.exists
    /\ dest.data # << >>

\* C22: whenever the last call returned success, its checksum field is the
\* SHA-256 digest of the whole destination file.
C22_ChecksumIsOfFileOnDisk ==
    (returned.outcome = "returned" /\ returned.success)
        => (dest.exists /\ returned.checksum = sha256(dest.data))

\* a resumed call succeeded: the bytes streamed are only a part of the file
C22_Witness ==
    /\ returned.outcome = "returned"
    /\ returned.success
    /\ request.sent
    /\ request.range # NoRange
    /\ request.range > 0
    /\ Len(dest.data) > request.range

Min(a, b) == IF a < b THEN a ELSE b

\* C23: a call that returns failure never removes the destination file. A
\* non-2xx response leaves the file as it was; after a connection broken k
\* bytes into the body the file holds those bytes, after the bytes it held
\* before when the call was resuming; and a completed download whose digest
\* differs from the expected one returns failure with the checksum error while
\* the downloaded file stays on disk.
C23_FailureKeepsFile ==
    [][\A get \in GetBehaviours, k \in 0..(MaxLen - 1), verify \in Verifies :
        (FetchStep(get, k, verify) /\ returned'.outcome = "returned") =>
            /\ (~returned'.success /\ dest.exists) => dest'.exists
            /\ (get = "status_error" /\ request'.sent) => (~returned'.success /\ dest' = dest)
            /\ (get = "drop" /\ request'.sent /\ dest.fault = "none") =>
                  LET body == IF request'.range = NoRange THEN remote.content
                              ELSE SubSeq(remote.content, request'.range + 1,
                                          Len(remote.content))
                      kept == IF returned'.resumed THEN dest.data ELSE << >>
                  IN  /\ ~returned'.success
                      /\ dest'.exists
                      /\ dest'.data = kept \o SubSeq(body, 1, Min(k, Len(body)))
            /\ (/\ get \in {"honor", "full"}
                /\ request'.sent
                /\ dest.fault = "none"
                /\ \/ verify = "mismatch"
                   \/ verify = "match" /\ dest'.data # remote.content) =>
                  /\ ~returned'.success
                  /\ returned'.error = "Checksum verification failed"
                  /\ dest'.exists
                  /\ dest'.data # << >>]_vars

\* a resumed call failed on a digest mismatch and the file is on disk
C23_Witness ==
    /\ returned.outcome = "returned"
    /\ ~returned.success
    /\ returned.error = "Checksum verification failed"
    /\ dest.exists
    /\ dest.data # << >>

\* the status changes a job record may go through
StatusSteps ==
    {<<"none", "pending">>, <<"pending", "processing">>, <<"processing", "completed">>,
     <<"processing", "failed">>, <<"processing", "pending">>}

\* C28: a job's status changes only from pending to processing, from
\* processing to completed, to failed or back to pending (a new record starts
\* as pending); a status of completed or failed never changes again.
C28_StatusMonotonic ==
    [][\A j \in JobIds :
          Status(store', j) # Status(store, j)
              => <<Status(store, j), Status(store', j)>> \in StatusSteps]_vars

\* C29: whenever no worker is inside a queue call, a record has status
\* pending exactly if its id is in the pending set and status processing
\* exactly if its id is in the active set; no id is in both sets, and the ids
\* of completed and failed records are in neither.
C29_StatusMatchesSets ==
    (\A w \in Workers : pc[w] = "idle") =>
        \A j \in JobIds :
            /\ Status(store, j) = "pending" <=> j \in DOMAIN store.pending
            /\ Status(store, j) = "processing" <=> j \in store.active
            /\ ~(j \in DOMAIN store.pending /\ j \in store.active)
            /\ Status(store, j) \in {"completed", "failed"}
                  => (j \notin DOMAIN store.pending /\ j \notin store.active)

\* C27: a failure of a kind that is not retried (a 4xx response, a digest
\* mismatch) sends the job to failed on its first failure and never back to
\* pending; an extractor failure is retried once and then failed; a transient
\* network error is retried while retry_count is below max_retries.
C27_RetryByKind ==
    [][\A job_id \in JobIds, error \in ResultErrors :
          FailStep(job_id, error, TRUE) =>
              LET retry_count == Get(store.jobs[job_id], "retry_count", 0)
                  retried == /\ Status(store', job_id) = "pending"
                             /\ job_id \in DOMAIN store'.pending
                  failed == /\ Status(store', job_id) = "failed"
                            /\ job_id \notin DOMAIN store'.pending
              IN  /\ error \in {"HTTP error: 404", "Checksum verification failed"} => failed
                  /\ error = "yt-dlp failed" => IF retry_count = 0 THEN retried ELSE failed
                  /\ error = "HTTP error: timed out" =>
                        IF retry_count < DEFAULT_MAX_RETRIES THEN retried ELSE failed]_vars

\* C24: on the loaded registry, detect returns a descriptor for every URL
\* whose scheme is http or https, in whichever case the scheme is written.
C24_DetectTotal ==
    (detect_url # << >> /\ detect_url[1] \in {"https://", "http://", "HTTPS://"})
        => detected # NoInfo

\* the handlers of the registry that accept the URL of the last detect call
Accepting == {id \in registry.handlers : can_handle(id, detect_url) # NoInfo}

\* C25: detect returns what the first handler of the detection order that
\* accepts the URL returns, and None if no handler accepts it: no handler
\* earlier in the order accepts the URL, generic is returned only if no other
\* handler accepts it, and no accepting handler has a smaller priority value
\* than the one returned.
C25_FirstAcceptingHandlerWins ==
    detect_url # << >> =>
        LET order == registry.detection_order
        IN  IF Accepting = {} THEN detected = NoInfo
            ELSE \E k \in 1..Len(order) :
                    /\ order[k] \in Accepting
                    /\ detected = can_handle(order[k], detect_url)
                    /\ detected.id = order[k]
                    /\ \A i \in 1..(k - 1) : order[i] \notin Accepting
                    /\ detected.id = "generic" => Accepting = {"generic"}
                    /\ \A id \in Accepting :
                          get_priority(detected.id, DEFAULT_REGISTER_PRIORITY)
                              <= get_priority(id, DEFAULT_REGISTER_PRIORITY)

\* a URL two handlers accept was given to the earlier one
C25_Witness ==
    /\ detected.id = "youtube"
    /\ "generic" \in Accepting
    /\ Cardinality(Accepting) > 1

\* C26: the reference URLs are classified as youtube/video, as civitai/model
\* with model_id 123 and version_id 456, and as generic/direct.
C26_ReferenceUrls ==
    /\ detect_url = <<"https://", "www.", "youtube.com", "/watch?v=", "abc">>
          => (detected.id = "youtube" /\ detected.url_type = "video")
    /\ detect_url = <<"https://", "civitai.com", "/models/", "123", "?modelVersionId=", "456">>
          => /\ detected.id = "civitai"
             /\ detected.url_type = "model"
             /\ detected.metadata = [model_id |-> "123", version_id |-> "456"]
    /\ detect_url = <<"https://", "example.org", "/file", ".zip">>
          => (detected.id = "generic" /\ detected.url_type = "direct")

\* the civitai reference URL has been classified
C26_Witness ==
    /\ detect_url = <<"https://", "civitai.com", "/models/", "123", "?modelVersionId=", "456">>
    /\ detected.id = "civitai"

\* C30: after any sequence of register calls the detection order holds each
\* registered id exactly once, is sorted by ascending priority (the fixed
\* value of a well-known id, otherwise the priority the handler was
\* registered with), and has generic last.
C30_OrderSortedByPriority ==
    LET order == registry.detection_order
        prio(id) == get_priority(id, given[id])
    IN  /\ {order[i] : i \in 1..Len(order)} = registry.handlers
        /\ \A id \in registry.handlers : Count(id, order) = 1
        /\ \A i, j \in 1..Len(order) : i < j => prio(order[i]) <= prio(order[j])
        /\ "generic" \in registry.handlers => order[Len(order)] = "generic"
\* --------------------------------- SpecProgress: progress snapshots of one job
\* One worker at the granularity of Spec (a queue call is one action), with
\* what happens inside _process_job: handler.download(url, options,
\* on_progress) emits progress snapshots until it returns. An
\* extractor-delegating handler (youtube, tiktok, twitter, reddit, telegram,
\* generic._ytdlp_download) parses percents from the extractor's output and
\* does `await progress_callback(...)`. A direct handler (generic._direct_download,
\* civitai, huggingface) passes the callback to download_file, which calls
\* `progress_callback(progress)` without awaiting it: on_progress is an
\* `async def`, so the call builds a coroutine object that is never run.
Percents == {0, 50, 100}

HandlerKinds == {"extractor", "direct"}

MaxSnapshots == 2   \* snapshots emitted by one download_file call

\* on_progress(progress), run to its end: update_progress for the job, then
\* the pool's progress_callback if one is set. g is the worker's record.
on_progress(s, g, percent) ==
    [store |-> update_progress(s, g.job, percent, 0, 0),
     prog |-> [g EXCEPT !.delivered = Append(@, percent),
                        !.notified = IF g.callback_set THEN Append(@, percent) ELSE @]]

ProgEnqueue ==
    \E url \in Urls, job_id \in NewIds :
        /\ EnqueueStep(url, DEFAULT_PRIORITY, FALSE, job_id)
        /\ UNCHANGED <<hist, tasks, poolv, fetchv, routev, sidev>>

\* job = await queue_manager.dequeue(); _process_job picks the handler of the
\* job's platform and calls handler.download
ProgDequeue ==
    /\ prog.phase = "idle"
    /\ DequeueStep
    /\ \E kind \in HandlerKinds :
           prog' = IF call'.ret = NoJob
                   THEN [NoProg EXCEPT !.callback_set = prog.callback_set]
                   ELSE [NoProg EXCEPT !.callback_set = prog.callback_set, !.kind = kind,
                                       !.job = call'.ret, !.phase = "download"]
    /\ UNCHANGED <<hist, tasks, poolv, fetchv, routev, percents, manager>>

\* _run_ytdlp reads a "[download] ...%" line: the percent is forwarded, with
\* await, only if it is greater than the last one forwarded
ExtractorLine ==
    /\ prog.phase = "download"
    /\ prog.kind = "extractor"
    /\ \E progress \in Percents :
           /\ progress > prog.last_progress
           /\ LET g == [prog EXCEPT !.emitted = Append(@, progress),
                                    !.last_progress = progress]
                  d == on_progress(store, g, progress)
              IN  /\ store' = d.store
                  /\ prog' = d.prog
    /\ UNCHANGED <<paused, now, call, hist, tasks, poolv, fetchv, routev, percents, manager>>

\* The same line when the delivery raises, in update_progress or in the pool's
\* callback: the exception leaves `await progress_callback(...)`, is caught by
\* the handler's `except Exception` and download returns success False,
\* whatever the extractor's own exit status (fate) would have been.
ExtractorLineRaise ==
    /\ prog.phase = "download"
    /\ prog.kind = "extractor"
    /\ \E progress \in Percents, at \in {"update_progress", "callback"},
          fate \in {"success", "failure"} :
           /\ progress > prog.last_progress
           /\ at = "callback" => prog.callback_set
           /\ store' = IF at = "callback"
                       THEN update_progress(store, prog.job, progress, 0, 0)
                       ELSE store
           /\ prog' = [prog EXCEPT !.emitted = Append(@, progress),
                                   !.delivered = IF at = "callback"
                                                 THEN Append(@, progress) ELSE @,
                                   !.raised = TRUE, !.phase = "returned",
                                   !.fate = fate, !.result = "failure"]
    /\ UNCHANGED <<paused, now, call, hist, tasks, poolv, fetchv, routev, percents, manager>>

\* download_file reaches `progress_callback(progress)`: the coroutine object
\* is built and dropped, nothing of on_progress runs
DirectSnapshot ==
    /\ prog.phase = "download"
    /\ prog.kind = "direct"
    /\ Len(prog.emitted) < MaxSnapshots
    /\ \E percent \in Percents :
           prog' = [prog EXCEPT !.emitted = Append(@, percent)]
    /\ UNCHANGED <<store, paused, now, call, hist, tasks, poolv, fetchv, routev, percents,
                   manager>>

\* handler.download returns its result dict
HandlerReturn ==
    /\ prog.phase = "download"
    /\ \E fate \in {"success", "failure"} :
           prog' = [prog EXCEPT !.phase = "returned", !.fate = fate, !.result = fate]
    /\ UNCHANGED <<store, paused, now, call, hist, tasks, poolv, fetchv, routev, percents,
                   manager>>

\* if result.get("success"): complete(job["id"], result) else: fail(job["id"], error)
WorkerReport ==
    /\ prog.phase = "returned"
    /\ IF prog.result = "success"
       THEN CompleteStep(prog.job)
       ELSE FailStep(prog.job, HANDLER_ERROR, TRUE)
    /\ prog' = [prog EXCEPT !.phase = "idle",
                            !.outcome = IF prog.result = "success" THEN "complete"
                                        ELSE "fail"]
    /\ UNCHANGED <<hist, tasks, poolv, fetchv, routev, percents, manager>>

\* The pool's progress_callback is set (set_progress_callback) or not.
InitProgress ==
    /\ InitQueue /\ InitPool /\ InitStarted /\ InitEngine /\ InitLoaded
    /\ prog \in {[NoProg EXCEPT !.callback_set = b] : b \in BOOLEAN}
    /\ percents = << >>
    /\ manager = EmptyManager

NextProgress ==
    \/ ProgEnqueue
    \/ ProgDequeue
    \/ ExtractorLine
    \/ ExtractorLineRaise
    \/ DirectSnapshot
    \/ HandlerReturn
    \/ WorkerReport

SpecProgress == InitProgress /\ [][NextProgress]_vars

Last(q) == q[Len(q)]

\* C32: every snapshot a handler emits while a job is processed reaches
\* update_progress for that job, and the pool's callback when one is set, so
\* that during the download the job record's progress is the last snapshot's.
C32_SnapshotsReachQueue ==
    (prog.kind # "none" /\ ~prog.raised) =>
        /\ prog.delivered = prog.emitted
        /\ prog.callback_set => prog.notified = prog.emitted
        /\ (prog.phase = "download" /\ prog.emitted # << >>) =>
               store.jobs[prog.job].progress = Last(prog.emitted)

\* C36: a failure while a snapshot is delivered never decides the outcome: a
\* job whose download succeeds by itself is reported with complete().
C36_DeliveryNeverDecidesOutcome ==
    (prog.outcome # "none" /\ prog.fate = "success") => prog.outcome = "complete"
\* ------------------------------- SpecEmit: the snapshots download_file emits
\* SpecFetch with the percent values download_file passes to its
\* progress_callback. A chunk is one byte; after a chunk the snapshot is
\* emitted when at least 0.5 s have passed since the last one, which is the
\* case at the chunks of `ticks`. Percents are rounded down to integers. The
\* response to the GET carries a Content-Length, the length of its body.

\* progress.percent after chunk i: downloaded / total_size * 100, or 0
percent_at(existing, total, i) ==
    IF total > 0 THEN ((existing + i) * 100) \div total ELSE 0

RECURSIVE chunk_percents(_, _, _, _, _)
chunk_percents(existing, total, n, ticks, i) ==
    IF i > n THEN << >>
    ELSE (IF i \in ticks THEN <<percent_at(existing, total, i)>> ELSE << >>)
             \o chunk_percents(existing, total, n, ticks, i + 1)

\* the snapshots of download_file from the request on
stream_percents(d, r, existing, range, get, k, verify, ticks) ==
    LET body == response_body(r, range, get)
        delivered == IF get = "drop" /\ k < Len(body) THEN SubSeq(body, 1, k) ELSE body
        head_size == remote_size(r)
        total == IF head_size = 0 THEN Len(body) + existing ELSE head_size
        streamed == chunk_percents(existing, total, Len(delivered), ticks, 1)
        last == IF streamed = << >> THEN 0 ELSE streamed[Len(streamed)]
        f == stream_to_file(d, r, existing, range, range # NoRange, get, k, verify)
    IN  IF get = "status_error" \/ d.fault = "open" THEN <<0>>
        ELSE IF get = "drop" THEN Append(streamed, last)
        ELSE IF f.returned.success THEN Append(streamed, 100)
        ELSE streamed

\* the percent values of the snapshots one download_file call emits
engine_percents(d, r, get, k, verify, ticks) ==
    LET found == IF d.exists THEN Len(d.data) ELSE 0
        total_size == remote_size(r)
    IN  IF d.fault = "mkdir" \/ (d.exists /\ d.fault = "stat") THEN << >>
        ELSE IF found > 0 /\ remote_accepts_ranges(r)
        THEN IF found < total_size
             THEN stream_percents(d, r, found, found, get, k, verify, ticks)
             ELSE IF found = total_size
             THEN (IF d.fault = "open" THEN <<0>> ELSE << >>)
             ELSE stream_percents(d, r, found, NoRange, get, k, verify, ticks)
        ELSE stream_percents(d, r, 0, NoRange, get, k, verify, ticks)

DownloadWithProgress ==
    \E get \in GetBehaviours, k \in 0..(MaxLen - 1), verify \in Verifies,
       ticks \in SUBSET (1..MaxLen) :
        /\ get = "drop" \/ k = 0
        /\ FetchStep(get, k, verify)
        /\ percents' = engine_percents(dest, remote, get, k, verify, ticks)
        /\ UNCHANGED <<store, paused, now, call, hist, tasks, poolv, routev, prog, manager>>

NextEmit == DownloadWithProgress

SpecEmit == InitFetch /\ [][NextEmit]_vars

\* C33: within one download call the percent values passed to the progress
\* sink never decrease.
C33_PercentsNonDecreasing ==
    \A i, j \in 1..Len(percents) : i < j => percents[i] <= percents[j]

\* C34: a download_file call that does not resume counts bytes from zero: every
\* percent it emits lies in 0..100 and, when it succeeds, the file_size it
\* returns is the number of bytes on disk.
C34_FreshDownloadCountsFromZero ==
    (returned.outcome = "returned" /\ ~returned.resumed) =>
        /\ \A i \in 1..Len(percents) : percents[i] \in 0..100
        /\ returned.success => returned.file_size = Len(dest.data)
\* ------------------------------------- SpecWs: the websocket ConnectionManager
\* Websocket endpoint tasks connect, subscribe, unsubscribe and disconnect
\* while one broadcast_to_job call is running; everything runs on one event
\* loop, so a task is interrupted only at an await. The broadcast iterates
\* over the set object self.subscriptions[job_id] itself and awaits send_json
\* for each element: bc.obj is the content of that set object, bc.attached
\* tells whether the dict still refers to it, bc.si_used is the size the set
\* iterator recorded when it was created. A socket object connects once.
NumConns == 2   \* websocket connections

Conns == 1..NumConns

Without(f, k) == [x \in (DOMAIN f) \ {k} |-> f[x]]

\* The set object the broadcast iterates over follows the dict entry as long as
\* the entry is that object; a deleted entry leaves the object empty.
follow(m, subs) ==
    LET bc == m.bc
    IN  IF bc.pc = "sending" /\ bc.attached
        THEN IF bc.job \in DOMAIN subs
             THEN [bc EXCEPT !.obj = subs[bc.job], !.stayed = @ \cap subs[bc.job]]
             ELSE [bc EXCEPT !.obj = {}, !.attached = FALSE, !.stayed = {}]
        ELSE bc

\* subscribers.discard(websocket); if not subscribers: del subscriptions[job_id]
discard(subs, job_id, websocket) ==
    IF job_id \notin DOMAIN subs THEN subs
    ELSE IF subs[job_id] \ {websocket} = {} THEN Without(subs, job_id)
    ELSE [subs EXCEPT ![job_id] = @ \ {websocket}]

RECURSIVE discard_all(_, _, _)
discard_all(subs, job_ids, websocket) ==
    IF job_ids = {} THEN subs
    ELSE LET j == CHOOSE x \in job_ids : TRUE
         IN  discard_all(discard(subs, j, websocket), job_ids \ {j}, websocket)

\* ConnectionManager.connect
connect(m, websocket) == [m EXCEPT !.active = @ \cup {websocket}]

\* ConnectionManager.disconnect
disconnect(m, websocket) ==
    LET subs == discard_all(m.subscriptions, DOMAIN m.subscriptions, websocket)
    IN  [m EXCEPT !.active = @ \ {websocket}, !.closed = @ \cup {websocket},
                  !.subscriptions = subs, !.bc = follow(m, subs)]

\* ConnectionManager.subscribe
subscribe(m, websocket, job_ids) ==
    LET subs == [j \in (DOMAIN m.subscriptions) \cup job_ids |->
                    IF j \in job_ids
                    THEN (IF j \in DOMAIN m.subscriptions THEN m.subscriptions[j] ELSE {})
                             \cup {websocket}
                    ELSE m.subscriptions[j]]
    IN  [m EXCEPT !.subscriptions = subs,
                  !.bc = follow(m, subs)]

\* ConnectionManager.unsubscribe
unsubscribe(m, websocket, job_ids) ==
    LET subs == discard_all(m.subscriptions, job_ids, websocket)
    IN  [m EXCEPT !.subscriptions = subs, !.bc = follow(m, subs)]

RECURSIVE disconnect_all(_, _)
disconnect_all(m, dead) ==
    IF dead = {} THEN m
    ELSE LET c == CHOOSE x \in dead : TRUE
         IN  disconnect_all(disconnect(m, c), dead \ {c})

\* broadcast_to_job up to its first await: the iterator is created and yields
\* its first element
broadcast_begin(m, job_id, first) ==
    [m EXCEPT !.bc = [pc |-> "sending", job |-> job_id, obj |-> m.subscriptions[job_id],
                      attached |-> TRUE, si_used |-> Cardinality(m.subscriptions[job_id]),
                      visited |-> {first}, sending |-> first, dead |-> {},
                      received |-> {}, stayed |-> m.subscriptions[job_id]]]

\* the iterator's next(): RuntimeError when the set changed size
set_changed_size(bc) == Cardinality(bc.obj) # bc.si_used

\* broadcast_to_job after the loop: disconnect every dead connection
broadcast_end(m) ==
    LET m1 == disconnect_all(m, m.bc.dead)
    IN  [m1 EXCEPT !.bc = [m.bc EXCEPT !.pc = "done", !.sending = 0]]

SetManager(m) ==
    /\ manager' = m
    /\ UNCHANGED <<store, paused, now, call, hist, tasks, poolv, fetchv, routev, prog,
                   percents>>

\* websocket_endpoint: await manager.connect(websocket)
ConnectCall ==
    \E c \in Conns \ (manager.active \cup manager.closed) :
        SetManager(connect(manager, c))

\* a {"type": "subscribe"} message
SubscribeCall ==
    \E c \in manager.active, job_ids \in (SUBSET JobIds) \ {{}} :
        SetManager(subscribe(manager, c, job_ids))

\* a {"type": "unsubscribe"} message
UnsubscribeCall ==
    \E c \in manager.active, job_ids \in (SUBSET JobIds) \ {{}} :
        SetManager(unsubscribe(manager, c, job_ids))

\* WebSocketDisconnect, or a send_personal that failed
DisconnectCall ==
    \E c \in manager.active :
        SetManager(disconnect(manager, c))

\* broadcast_to_job(job_id, message) called: returns at once without
\* subscribers, else suspends in the first send_json
BroadcastStart ==
    /\ manager.bc.pc # "sending"
    /\ \E job_id \in JobIds :
           IF job_id \notin DOMAIN manager.subscriptions
           THEN SetManager([manager EXCEPT !.bc = [NoBroadcast EXCEPT !.pc = "done",
                                                                      !.job = job_id]])
           ELSE \E first \in manager.subscriptions[job_id] :
                    SetManager(broadcast_begin(manager, job_id, first))

\* the awaited send_json completes or raises; the loop asks the iterator for
\* the next element and either fails, ends, or suspends in the next send
SendDone ==
    /\ manager.bc.pc = "sending"
    /\ \E ok \in BOOLEAN :
           LET bc0 == manager.bc
               bc == IF ok THEN [bc0 EXCEPT !.received = @ \cup {bc0.sending}]
                     ELSE [bc0 EXCEPT !.dead = @ \cup {bc0.sending}]
               rest == bc.obj \ bc.visited
           IN  IF set_changed_size(bc)
               THEN SetManager([manager EXCEPT !.bc = [bc EXCEPT !.pc = "raised",
                                                                 !.sending = 0]])
               ELSE \/ /\ rest \cap bc.stayed = {}
                       /\ SetManager(broadcast_end([manager EXCEPT !.bc = bc]))
                    \/ \E c \in rest :
                           SetManager([manager EXCEPT
                               !.bc = [bc EXCEPT !.sending = c, !.visited = @ \cup {c}]])

NextWs ==
    \/ ConnectCall
    \/ SubscribeCall
    \/ UnsubscribeCall
    \/ DisconnectCall
    \/ BroadcastStart
    \/ SendDone

SpecWs == Init /\ [][NextWs]_vars

\* C35: a broadcast whose subscriber sets are changed while it is suspended in
\* a send does not fail; when it ends, every connection subscribed to the job
\* for the whole broadcast has been sent the message, and every connection
\* whose send failed is gone from the active connections and from every
\* subscription, none of which is left empty.
C35_BroadcastSafeUnderMutation ==
    [][manager.bc.pc = "sending" =>
          /\ manager'.bc.pc # "raised"
          /\ manager'.bc.pc = "done" =>
                 /\ manager.bc.stayed \cap manager'.bc.stayed
                        \subseteq manager'.bc.received \cup manager'.bc.dead
                 /\ manager'.bc.dead \cap manager'.active = {}
                 /\ \A j \in DOMAIN manager'.subscriptions :
                        /\ manager'.subscriptions[j] \cap manager'.bc.dead = {}
                        /\ manager'.subscriptions[j] # {}]_vars
\* C37: a fingerprint recorded by enqueue(deduplicate=true) stays: no call of
\* dequeue, complete, fail or enqueue removes a fingerprint; an admitted
\* enqueue with deduplicate=true records one; while it is there, enqueue of the
\* same URL with deduplicate=true returns None and changes nothing; enqueue
\* with deduplicate=false admits a new job and leaves the fingerprints alone.
\* (A step that leaves the clock alone and ends with call.op = "enqueue" is an
\* enqueue call.)
C37_FingerprintOutlivesJob ==
    [][/\ \A h \in DOMAIN store.urls : store.urls[h] # NoJob => store'.urls[h] # NoJob
       /\ (call'.op = "enqueue" /\ now' = now /\ call'.deduplicate) =>
              IF store.urls[url_hash(call'.url)] # NoJob
              THEN call'.ret = NoJob /\ store' = store
              ELSE call'.ret # NoJob /\ store'.urls[url_hash(call'.url)] = call'.ret
       /\ (call'.op = "enqueue" /\ now' = now /\ ~call'.deduplicate) =>
              /\ call'.ret # NoJob
              /\ store'.urls = store.urls
              /\ Status(store', call'.ret) = "pending"]_vars

\* The job that recorded the fingerprint has completed or failed for good,
\* nothing is pending or active, and an enqueue of its URL with
\* deduplicate=true has just been refused.
C37_Witness ==
    /\ call.op = "enqueue" /\ call.deduplicate /\ call.ret = NoJob
    /\ DOMAIN store.pending = {} /\ store.active = {}
    /\ store.urls[url_hash(call.url)] # NoJob
    /\ Status(store, store.urls[url_hash(call.url)]) \in {"completed", "failed"}
\* ------------------------------------------ SpecLive: the pool under fairness
\* The fault-free pool of SpecLog on an empty store, with the scheduling of the
\* event loop: a worker task that is ready to run is run, every awaited store
\* command completes and every handler.download call returns, so each running
\* worker's next step is taken if it stays possible. The queue is never paused
\* and finitely many jobs are enqueued (at most MaxJobs). The pool may be
\* scaled down to any size of at least one, so at least one worker keeps
\* running; a worker inside handler.download is not removed, since that call
\* returns.
WorkerStep(w) ==
    \/ WDequeue(w)
    \/ WDequeueRest(w)
    \/ WHandler(w)
    \/ WComplete(w)
    \/ WFail(w)

LiveScaleDown ==
    \E m \in 1..(Len(workers) - 1) :
        /\ \A i \in (m + 1)..Len(workers) : pc[workers[i]] # "handler"
        /\ ScaleStep(m)

NextLive ==
    \/ PoolEnqueue
    \/ \E w \in Workers : WorkerStep(w)
    \/ LiveScaleDown

SpecLive == Init /\ [][NextLive]_vars /\ \A w \in Workers : WF_vars(WorkerStep(w))

Finished(j) == Status(store, j) \in {"completed", "failed"}

\* the dequeues of job j recorded while its handler never succeeded
Attempts(j) == Count("processing", traj[j])

\* C38: every enqueued job eventually has status completed or failed, after at
\* most max_retries + 1 attempts, and pending and active are empty again and
\* again (for good once no more job is enqueued).
C38_EveryJobSettles ==
    /\ \A j \in JobIds : (store.jobs[j] # NoRecord) ~> Finished(j)
    /\ []<>(DOMAIN store.pending = {} /\ store.active = {})
    /\ [](\A j \in JobIds : Attempts(j) <= DEFAULT_MAX_RETRIES + 1)
\* C39: whenever the pool is running and no start, stop or scale call is in
\* flight (in SpecStop each such call is one step), the pool holds exactly
\* num_workers workers, all of them running, with pairwise distinct ids.
C39_PoolSizeInvariant ==
    pool_running =>
        /\ Len(workers) = num_workers
        /\ \A i \in 1..Len(workers) : running[workers[i]]
        /\ \A i, k \in 1..Len(workers) :
               i # k => worker_id[workers[i]] # worker_id[workers[k]]
====
